---- MODULE Spec2Model ----
(***************************************************************************)
(* Model of nvwa's generic tree (src/nvwa/tree.h): the node with its       *)
(* ordered sequence of child handles under the two storage policies, the   *)
(* iterative remove_children and destroy, and the breadth-first,           *)
(* depth-first and in-order traversal iterators; and of nvwa's line        *)
(* readers basic_mmap_line_reader (src/nvwa/mmap_line_reader.h) and        *)
(* file_line_reader (src/nvwa/file_line_reader.h, file_line_reader.cpp).   *)
(*                                                                         *)
(* A node is a number in Nodes; a handle (tree_ptr) is a node or null.     *)
(* _M_children[n] is the vector of handles of node n.  Raw pointers held   *)
(* by the iterators (pointer, _Tree* ) are nodes or nullptr as well.       *)
(***************************************************************************)
EXTENDS Integers, Sequences, FiniteSets, TLC

\* ------------------------------------------------------------- bounds
MaxNodes == 5     \* nodes of an input tree
MaxSlots == 3     \* child slots of one node of an input tree
MaxAbsent == 1    \* absent slots of an input tree
MaxHeld == 1      \* handles the client holds on nodes below the root
MaxAlloc == 3     \* nodes the client creates in one run of handle operations
MaxLocals == 2    \* local tree_ptr variables of the client
MaxWidth == 2     \* child slots a node gets from the client's handle operations
MaxLen == 5       \* bytes of the file a line reader reads
BUFFER_SIZE == 2  \* BUFFER_SIZE of file_line_reader.cpp, 256 there: scaled down
                  \* so that lines longer than the buffer and than twice the
                  \* buffer lie within MaxLen

\* tree::null(): the absent handle; also nullptr of a raw pointer
null == 0
Nodes == 1..MaxNodes
Handles == Nodes \cup {null}
\* storage_policy
Policies == {"unique", "shared"}

Max(a, b) == IF a >= b THEN a ELSE b

\* ------------------------------------------------- bounded input trees
\* The client builds trees bottom-up with create_tree(value, children...):
\* every ordered tree shape with absent slots is enumerated here once, its
\* nodes numbered in the order of their creation: node 1 is the root, the
\* numbers grow with the depth, within a depth with the number of the parent
\* and under one parent left to right.

RECURSIVE SortedSeq(_)
SortedSeq(S) ==
    IF S = {} THEN <<>>
    ELSE LET m == CHOOSE x \in S : \A y \in S : x <= y
         IN <<m>> \o SortedSeq(S \ {m})

RECURSIVE SubsetsUpTo(_, _)
SubsetsUpTo(X, k) ==
    IF k = 0 THEN {{}}
    ELSE LET S == SubsetsUpTo(X, k - 1)
         IN S \cup {s \cup {x} : s \in S, x \in X}

ParentFns(n) ==
    {p \in [2..n -> 1..n] :
        \A j \in 2..n : p[j] < j /\ (j < n => p[j] <= p[j + 1])}

\* the slots of a node: its present children in order, null at the places in np
SlotSeq(kids, np) ==
    [q \in 1..(Len(kids) + Cardinality(np)) |->
        IF q \in np THEN null
        ELSE kids[q - Cardinality({r \in np : r < q})]]

NullPlaces(A, i) == {q \in 1..MaxSlots : <<i, q>> \in A}

KidsOf(n, p, i) == SortedSeq({j \in 2..n : p[j] = i})

WellFormed(n, p, A) ==
    \A i \in Nodes :
        LET len == Len(KidsOf(n, p, i)) + Cardinality(NullPlaces(A, i))
        IN /\ len <= MaxSlots
           /\ NullPlaces(A, i) \subseteq 1..len
           /\ (i > n => NullPlaces(A, i) = {})

MkTree(n, p, A) ==
    [i \in Nodes |-> IF i <= n THEN SlotSeq(KidsOf(n, p, i), NullPlaces(A, i))
                     ELSE <<>>]

Trees ==
    UNION {
        {[n |-> n, ch |-> MkTree(n, p, A)] :
            <<p, A>> \in {pa \in ParentFns(n) \X SubsetsUpTo((1..n) \X (1..MaxSlots), MaxAbsent) :
                              WellFormed(n, pa[1], pa[2])}}
        : n \in 1..MaxNodes}

VARIABLES
    policy,         \* storage_policy _Policy of the tree type
    _M_children,    \* tree::_M_children of every node
    live,           \* nodes constructed and not destroyed
    use_count,      \* shared policy: number of handles owning the node
    released,       \* how many times ~tree() ran on the node
    held,           \* the client's own handles (local tree_ptr variables)
    pc,             \* position in remove_children
    children_ptr,   \* remove_children: node whose _M_children it points to
    popped,         \* remove_children: the slot the last pop_back removed
    dtor_depth,     \* deepest nesting of ~tree() inside one handle drop
    descends,       \* remove_children: times children_ptr was redirected
    pops,           \* remove_children: times pop_back was called
    tree0,          \* _M_children of every node when the run started
    _Iteration,     \* the iteration class the client gave to traverse<>()
    null_deref,     \* what this build makes of operator* on an absent handle
    bf,             \* the client's breadth_first_iteration::iterator objects
    df,             \* the client's depth_first_iteration::iterator objects
    io,             \* the client's in_order_iteration::iterator objects
    started,        \* iterator objects that were assigned begin()
    adv,            \* number of operator++ calls on each iterator object
    out,            \* the nodes each iterator object designated, in order
    aborted,        \* the process was aborted by a failed library assertion
    current,        \* tree::destroy: its local handle current
    parent,         \* tree::destroy: its local handle parent
    dpc,            \* position in tree::destroy
    dobs,           \* tree::destroy: what its last loop iteration did
    ref,            \* reference list of every node's children sequence
    lr_class,       \* the line reader class the client uses
    content,        \* the bytes of the file (data() / what the stream holds)
    _M_delimiter,   \* the reader's _M_delimiter
    _M_strip_delimiter, \* the reader's _M_strip_delimiter
    oob_read,       \* what reading output[-1] gives in this run
    mm,             \* the client's basic_mmap_line_reader::iterator objects
    fl,             \* the client's file_line_reader::iterator objects
    file_reader,    \* the file_line_reader object and its stream
    lr_started,     \* line iterator objects that were assigned begin()
    lr_out,         \* the lines each line iterator object yielded, in order
    output_in_bounds, \* read has accessed output only inside [0, capacity)
    flr,            \* the client's file_line_reader objects: lifetime, _M_buffer
    news,           \* number of new char[BUFFER_SIZE] of file_line_reader
    deletes,        \* number of delete[] calls on each buffer
    double_delete,  \* what this build makes of a second delete[] of a buffer
    crashed         \* the process was ended by the allocator

heapVars == <<policy, _M_children, live, use_count, released, held>>
rcVars == <<pc, children_ptr, popped, dtor_depth, descends, pops>>
travVars == <<_Iteration, null_deref, bf, df, io, started, adv, out, aborted>>
ownVars == <<current, parent, dpc, dobs>>
seqVars == <<ref>>
lrVars == <<lr_class, content, _M_delimiter, _M_strip_delimiter, oob_read,
            mm, fl, file_reader, lr_started, lr_out, output_in_bounds>>
bufVars == <<flr, news, deletes, double_delete, crashed>>
vars == <<heapVars, rcVars, tree0, travVars, ownVars, seqVars, lrVars, bufVars>>
\* what remove_children leaves alone
rcFrame == <<tree0, travVars, ownVars, seqVars, lrVars, bufVars>>
\* what the traversal iterators leave alone
travFrame == <<heapVars, rcVars, tree0, ownVars, seqVars, lrVars, bufVars>>
\* what the client's handle operations and tree::destroy leave alone
ownFrame == <<policy, rcVars, tree0, travVars, seqVars, lrVars, bufVars>>

\* -------------------------------------------------------------- heap
\* tree::has_child, tree::child_count, tree::back on the vectors ch
\* the first slot instead of the last
front(ch, n) == ch[n][1]
has_child(ch, n) == ch[n] # <<>>
child_count(ch, n) == Len(ch[n])
back(ch, n) == ch[n][Len(ch[n])]

\* the present handles among the slots of n
PresentKids(ch, n) == {ch[n][q] : q \in 1..Len(ch[n])} \ {null}

RECURSIVE ReachFrom(_, _, _)
ReachFrom(ch, S, k) ==
    IF k = 0 THEN S
    ELSE ReachFrom(ch, S \cup UNION {PresentKids(ch, m) : m \in S}, k - 1)

\* the nodes below n
Descendants(ch, n) == ReachFrom(ch, PresentKids(ch, n), MaxNodes)

\* the heap as one value, for the operators that destroy handles
Heap == [ch |-> _M_children, uc |-> use_count, rel |-> released,
         live |-> live, nest |-> 0]

\* Destruction of one handle at nesting d of ~tree().  unique_ptr deletes
\* its node; shared_ptr decrements use_count and deletes the node when the
\* count reaches zero.  ~tree() destroys _M_children, i.e. every handle in it.
RECURSIVE DropHandle(_, _, _, _)
RECURSIVE DropAll(_, _, _, _)
DropHandle(pol, H, h, d) ==
    IF h = null THEN H
    ELSE IF pol = "shared" /\ H.uc[h] > 1 THEN [H EXCEPT !.uc[h] = @ - 1]
    ELSE LET slots == H.ch[h]
             H1 == [H EXCEPT !.uc[h] = 0, !.rel[h] = @ + 1, !.live = @ \ {h},
                             !.ch[h] = <<>>, !.nest = Max(@, d + 1)]
         IN DropAll(pol, H1, slots, d + 1)
DropAll(pol, H, s, d) ==
    IF s = <<>> THEN H
    ELSE DropAll(pol, DropHandle(pol, H, Head(s), d), Tail(s), d)

SetHeap(H) ==
    /\ _M_children' = H.ch
    /\ use_count' = H.uc
    /\ released' = H.rel
    /\ live' = H.live

\* the heap holding the tree t under policy pol, the client holding hd
InitHeap(t, pol, hd) ==
    /\ policy = pol
    /\ _M_children = t.ch
    /\ live = 1..t.n
    /\ use_count = [i \in Nodes |->
                      IF pol = "shared" /\ i <= t.n
                      THEN 1 + Cardinality({k \in DOMAIN hd : hd[k] = i})
                      ELSE 0]
    /\ released = [i \in Nodes |-> 0]
    /\ held = hd

\* ----------------------------------------------- tree::remove_children
\* the node remove_children is called on (this)
root == 1

IdleRC ==
    /\ pc = "idle"
    /\ children_ptr = root
    /\ popped = [h |-> null, kids |-> 0]
    /\ dtor_depth = 0
    /\ descends = 0
    /\ pops = 0

\* children_ptr->back() && children_ptr->back()->has_child()
never_descend(ch, cp) == FALSE

\* a descent that stops at nodes with another owner
can_descend_sole_owner(ch, cp) ==
    back(ch, cp) # null /\ has_child(ch, back(ch, cp)) /\ use_count[back(ch, cp)] = 1

can_descend(ch, cp) == back(ch, cp) # null /\ has_child(ch, back(ch, cp))

\* where control goes when while (!children_ptr->empty()) ends: back to
\* the test of while (has_child())
rc_single_pass == "done"

rc_inner_again == "inner"

rc_after_inner == "outer"

\* One step of this->remove_children() on the state S of the call: the heap
\* H, the position pc, children_ptr, and what the pop_backs did so far.
rc_step(pol, this, S) ==
    LET ch == S.H.ch
        cp == S.children_ptr
    IN CASE S.pc = "outer" ->
              \* while (has_child()) { children_ptr = &_M_children;
              IF has_child(ch, this)
              THEN [S EXCEPT !.pc = "inner", !.children_ptr = this]
              ELSE [S EXCEPT !.pc = "done"]
         [] S.pc = "inner" ->
              \* while (!children_ptr->empty()) {
              IF ch[cp] # <<>>
              THEN [S EXCEPT !.pc = "back"]
              ELSE [S EXCEPT !.pc = rc_after_inner]
         [] S.pc = "back" ->
              IF can_descend(ch, cp)
              THEN \* children_ptr = &children_ptr->back()->_M_children;
                   [S EXCEPT !.children_ptr = back(ch, cp),
                             !.descends = @ + 1]
              ELSE \* children_ptr->pop_back();
                   LET b == back(ch, cp)
                       H0 == [S.H EXCEPT !.ch[cp] = SubSeq(@, 1, Len(@) - 1),
                                         !.nest = 0]
                       H1 == DropHandle(pol, H0, b, 0)
                   IN [S EXCEPT !.H = H1, !.pc = "inner",
                                !.popped = [h |-> b,
                                            kids |-> IF b = null THEN 0
                                                     ELSE Len(ch[b])],
                                !.depth = Max(@, H1.nest),
                                !.pops = @ + 1]
         [] OTHER -> S

\* remove_children() run to its return
RECURSIVE rc_run(_, _, _)
rc_run(pol, this, S) ==
    IF S.pc = "done" THEN S ELSE rc_run(pol, this, rc_step(pol, this, S))

\* the state of the call in progress on root
rc_state == [H |-> Heap, pc |-> pc, children_ptr |-> children_ptr,
             popped |-> popped, depth |-> dtor_depth,
             descends |-> descends, pops |-> pops]

rc_apply(S) ==
    /\ SetHeap(S.H)
    /\ pc' = S.pc
    /\ children_ptr' = S.children_ptr
    /\ popped' = S.popped
    /\ dtor_depth' = S.depth
    /\ descends' = S.descends
    /\ pops' = S.pops
    /\ UNCHANGED <<policy, held, rcFrame>>

\* the client calls root.remove_children()
rc_call ==
    /\ pc = "idle"
    /\ pc' = "outer"
    /\ UNCHANGED <<heapVars, children_ptr, popped, dtor_depth, descends, pops,
                   rcFrame>>

\* the test of while (has_child())
rc_outer ==
    /\ pc = "outer"
    /\ rc_apply(rc_step(policy, root, rc_state))

\* the test of while (!children_ptr->empty())
rc_inner ==
    /\ pc = "inner"
    /\ rc_apply(rc_step(policy, root, rc_state))

\* children_ptr = &children_ptr->back()->_M_children;
rc_descend ==
    /\ pc = "back"
    /\ can_descend(_M_children, children_ptr)
    /\ rc_apply(rc_step(policy, root, rc_state))

\* children_ptr->pop_back();
rc_pop_back ==
    /\ pc = "back"
    /\ ~can_descend(_M_children, children_ptr)
    /\ rc_apply(rc_step(policy, root, rc_state))

\* ------------------------------------------------- traversal iterators
\* The iterator objects of the client: two of the class it instantiated.
Its == {1, 2}
Iterations == {"breadth_first_iteration", "depth_first_iteration",
               "in_order_iteration"}

\* operator* on an absent tree_ptr has undefined behaviour (the standard
\* requires get() != nullptr).  Builds differ in what they make of
\* "_M_current = &**next_node; ... if (_M_current != nullptr)":
\*   "nullptr"          the address taken is the null pointer,
\*   "assumed_nonnull"  the compiler takes the address of a reference for
\*                      non-null and drops the test that follows,
\*   "abort"            the library's assertion in operator* aborts.
NullDerefs == {"nullptr", "assumed_nonnull", "abort"}

\* --- breadth_first_iteration::iterator
\* A vector is its elements and the identity of its storage (0: none, else
\* the iterator object that owns it); a vector iterator is a storage and an
\* offset into it.
bf_default ==
    [_M_this_level |-> <<>>, this_buf |-> 0, _M_next_level |-> <<>>,
     _M_current |-> [buf |-> 0, idx |-> 0]]

\* explicit iterator(pointer root) : _M_this_level({root})
bf_iterator(k, r) ==
    [_M_this_level |-> <<r>>, this_buf |-> k, _M_next_level |-> <<>>,
     _M_current |-> [buf |-> k, idx |-> 0]]

bf_level_end(it) == [buf |-> it.this_buf, idx |-> Len(it._M_this_level)]

\* bool empty() const
bf_empty(it) == it._M_current = bf_level_end(it)

\* operator==
bf_eq(a, b) == (bf_empty(a) /\ bf_empty(b)) \/ a._M_current = b._M_current

\* operator*: the node **_M_current
bf_deref(it) == it._M_this_level[it._M_current.idx + 1]

IsPresent(h) == h # null

Reverse(s) == [i \in 1..Len(s) |-> s[Len(s) + 1 - i]]

\* the present children appended right to left
bf_children_reversed(ch, n) == Reverse(SelectSeq(ch[n], IsPresent))

\* the children of node n that operator++ appends to _M_next_level
bf_children_pushed(ch, n) == SelectSeq(ch[n], IsPresent)

\* an operator++ that copies _M_next_level into _M_this_level
bf_increment_keeps_next(k, ch, it) ==
    LET nl == it._M_next_level \o bf_children_pushed(ch, bf_deref(it))
        nx == [it._M_current EXCEPT !.idx = @ + 1]
    IN IF nx = bf_level_end(it)
       THEN [_M_this_level |-> nl, this_buf |-> IF nl = <<>> THEN 0 ELSE k,
             _M_next_level |-> nl,
             _M_current |-> [buf |-> IF nl = <<>> THEN 0 ELSE k, idx |-> 0]]
       ELSE [it EXCEPT !._M_next_level = nl, !._M_current = nx]

\* iterator& operator++()
bf_increment(k, ch, it) ==
    LET nl == it._M_next_level \o bf_children_pushed(ch, bf_deref(it))
        nx == [it._M_current EXCEPT !.idx = @ + 1]
    IN IF nx = bf_level_end(it)
       THEN \* _M_this_level = std::move(_M_next_level): the storage moves
            \* over and _M_next_level is left empty
            LET nb == IF nl = <<>> THEN 0 ELSE k
            IN [_M_this_level |-> nl, this_buf |-> nb, _M_next_level |-> <<>>,
                _M_current |-> [buf |-> nb, idx |-> 0]]
       ELSE [it EXCEPT !._M_next_level = nl, !._M_current = nx]

\* --- depth_first_iteration::iterator
\* A stack entry is the pair (next, end) of const_iterators into the
\* _M_children of node vec: first and second are 1-based places in it.
df_default == [_M_current |-> null, _M_stack |-> <<>>]
df_iterator(r) == [_M_current |-> r, _M_stack |-> <<>>]
df_empty(it) == it._M_current = null
df_eq(a, b) == a._M_current = b._M_current

\* a push that puts the entry on the stack twice
Push_twice(st, e) == Append(Append(st, e), e)
Push(st, e) == Append(st, e)
Pop(st) == SubSeq(st, 1, Len(st) - 1)
Top(st) == st[Len(st)]
SetTop(st, e) == [st EXCEPT ![Len(st)] = e]

\* the for (;;) loop of operator++; the result carries whether the process
\* was aborted inside it
RECURSIVE df_loop(_, _, _)
df_loop(ch, nd, st) ==
    IF st = <<>> THEN [_M_current |-> null, _M_stack |-> st, aborted |-> FALSE]
    ELSE LET top == Top(st)
         IN IF top.first # top.second
            THEN LET h == ch[top.vec][top.first]
                     st1 == SetTop(st, [top EXCEPT !.first = @ + 1])
                 IN IF h # null
                    THEN [_M_current |-> h, _M_stack |-> st1, aborted |-> FALSE]
                    ELSE CASE nd = "nullptr" -> df_loop(ch, nd, st1)
                           [] nd = "assumed_nonnull" ->
                                [_M_current |-> null, _M_stack |-> st1,
                                 aborted |-> FALSE]
                           [] nd = "abort" ->
                                [_M_current |-> null, _M_stack |-> st,
                                 aborted |-> TRUE]
            ELSE df_loop(ch, nd, Pop(st))

\* iterator& operator++()
df_increment(ch, nd, it) ==
    LET n == it._M_current
        st == IF ch[n] # <<>>
              THEN Push(it._M_stack,
                        [vec |-> n, first |-> 1, second |-> Len(ch[n]) + 1])
              ELSE it._M_stack
    IN df_loop(ch, nd, st)

\* --- in_order_iteration::iterator
\* A stack entry is the tuple (curr, next_child, end_child): curr a node
\* pointer or nullptr, the iterators places in the _M_children of node vec.
io_default == [_M_current |-> null, _M_stack |-> <<>>]
io_empty(it) == it._M_current = null
io_eq(a, b) == a._M_current = b._M_current

\* find_leftmost_child pushing the node itself also when its first slot is
\* absent, so that the node is due a second time
RECURSIVE find_leftmost_child_self_pending(_, _, _)
find_leftmost_child_self_pending(ch, curr, st) ==
    IF ~has_child(ch, curr) THEN [node |-> curr, _M_stack |-> st]
    ELSE LET e == [curr |-> curr, vec |-> curr, next_child |-> 2,
                   end_child |-> Len(ch[curr]) + 1]
         IN IF ch[curr][1] # null
            THEN find_leftmost_child_self_pending(ch, ch[curr][1], Push(st, e))
            ELSE [node |-> curr, _M_stack |-> Push(st, e)]

\* pointer find_leftmost_child(pointer root): the node found and the stack
RECURSIVE find_leftmost_child(_, _, _)
find_leftmost_child(ch, curr, st) ==
    IF ~has_child(ch, curr) THEN [node |-> curr, _M_stack |-> st]
    ELSE LET left_child == 1
             next_child == IF left_child # Len(ch[curr]) + 1
                           THEN left_child + 1 ELSE left_child
             end_child == Len(ch[curr]) + 1
         IN IF ch[curr][left_child] # null
            THEN find_leftmost_child(ch, ch[curr][left_child],
                     Push(st, [curr |-> curr, vec |-> curr,
                               next_child |-> next_child, end_child |-> end_child]))
            ELSE [node |-> curr,
                  _M_stack |-> Push(st, [curr |-> null, vec |-> curr,
                                         next_child |-> next_child,
                                         end_child |-> end_child])]

\* explicit iterator(pointer root) : _M_current(find_leftmost_child(root))
io_iterator(ch, r) ==
    LET f == find_leftmost_child(ch, r, <<>>)
    IN [_M_current |-> f.node, _M_stack |-> f._M_stack]

\* the first place at or after q, before e, whose handle in ch[n] is present;
\* e when there is none
RECURSIVE NextPresent(_, _, _, _)
NextPresent(ch, n, q, e) ==
    IF q = e \/ ch[n][q] # null THEN q ELSE NextPresent(ch, n, q + 1, e)

\* iterator& operator++()
RECURSIVE io_increment(_, _)
io_increment(ch, it) ==
    LET st == it._M_stack
    IN IF st = <<>> THEN [_M_current |-> null, _M_stack |-> st]
       ELSE LET top == Top(st)
            IN IF top.curr # null
               THEN [_M_current |-> top.curr,
                     _M_stack |-> SetTop(st, [top EXCEPT !.curr = null])]
               ELSE LET q == NextPresent(ch, top.vec, top.next_child, top.end_child)
                    IN IF q # top.end_child
                       THEN LET f == find_leftmost_child(ch, ch[top.vec][q],
                                         SetTop(st, [top EXCEPT !.next_child = q + 1]))
                            IN [_M_current |-> f.node, _M_stack |-> f._M_stack]
                       ELSE io_increment(ch, [it EXCEPT !._M_stack = Pop(st)])

\* --- the client of the iterators
IdleTrav ==
    /\ _Iteration = "none"
    /\ null_deref = "nullptr"
    /\ bf = [k \in Its |-> bf_default]
    /\ df = [k \in Its |-> df_default]
    /\ io = [k \in Its |-> io_default]
    /\ started = {}
    /\ adv = [k \in Its |-> 0]
    /\ out = [k \in Its |-> <<>>]
    /\ aborted = FALSE

\* an operator++ that moves the children of the node out of its vector
children_moved_out(ch, n) == [ch EXCEPT ![n] = [q \in DOMAIN @ |-> null]]

\* the vectors after operator++ went through the children of node n: the
\* iterators read them through cbegin()/cend() and references and write
\* nothing
children_after_visit(ch, n) == ch

\* what operator++ of an iterator leaves alone besides the vectors it reads
visitFrame == <<policy, live, use_count, released, held, rcVars, tree0, ownVars,
                seqVars, lrVars, bufVars>>

\* it = traverse<breadth_first_iteration>(root).begin()
bf_begin(k) ==
    /\ _Iteration = "breadth_first_iteration"
    /\ k \notin started
    /\ bf' = [bf EXCEPT ![k] = bf_iterator(k, root)]
    /\ started' = started \cup {k}
    /\ out' = [out EXCEPT ![k] = <<root>>]
    /\ UNCHANGED <<travFrame, _Iteration, null_deref, df, io, adv, aborted>>

\* ++it
bf_advance(k) ==
    /\ _Iteration = "breadth_first_iteration"
    /\ k \in started
    /\ ~bf_empty(bf[k])
    /\ LET it == bf_increment(k, _M_children, bf[k])
       IN /\ bf' = [bf EXCEPT ![k] = it]
          /\ out' = [out EXCEPT ![k] = IF bf_empty(it) THEN @
                                       ELSE Append(@, bf_deref(it))]
    /\ adv' = [adv EXCEPT ![k] = @ + 1]
    /\ _M_children' = children_after_visit(_M_children, bf_deref(bf[k]))
    /\ UNCHANGED <<visitFrame, _Iteration, null_deref, df, io, started, aborted>>

\* it = traverse<depth_first_iteration>(root).begin()
df_begin(k) ==
    /\ _Iteration = "depth_first_iteration"
    /\ ~aborted
    /\ k \notin started
    /\ df' = [df EXCEPT ![k] = df_iterator(root)]
    /\ started' = started \cup {k}
    /\ out' = [out EXCEPT ![k] = <<root>>]
    /\ UNCHANGED <<travFrame, _Iteration, null_deref, bf, io, adv, aborted>>

\* ++it
df_advance(k) ==
    /\ _Iteration = "depth_first_iteration"
    /\ ~aborted
    /\ k \in started
    /\ ~df_empty(df[k])
    /\ LET r == df_increment(_M_children, null_deref, df[k])
       IN /\ aborted' = r.aborted
          /\ df' = [df EXCEPT ![k] = IF r.aborted THEN @
                                     ELSE [_M_current |-> r._M_current,
                                           _M_stack |-> r._M_stack]]
          /\ out' = [out EXCEPT ![k] = IF r.aborted \/ r._M_current = null THEN @
                                       ELSE Append(@, r._M_current)]
    /\ adv' = [adv EXCEPT ![k] = @ + 1]
    /\ _M_children' = children_after_visit(_M_children, df[k]._M_current)
    /\ UNCHANGED <<visitFrame, _Iteration, null_deref, bf, io, started>>

\* it = traverse<in_order_iteration>(root).begin()
io_begin(k) ==
    /\ _Iteration = "in_order_iteration"
    /\ k \notin started
    /\ LET it == io_iterator(_M_children, root)
       IN /\ io' = [io EXCEPT ![k] = it]
          /\ out' = [out EXCEPT ![k] = <<it._M_current>>]
    /\ started' = started \cup {k}
    /\ UNCHANGED <<travFrame, _Iteration, null_deref, bf, df, adv, aborted>>

\* ++it
io_advance(k) ==
    /\ _Iteration = "in_order_iteration"
    /\ k \in started
    /\ ~io_empty(io[k])
    /\ LET it == io_increment(_M_children, io[k])
       IN /\ io' = [io EXCEPT ![k] = it]
          /\ out' = [out EXCEPT ![k] = IF io_empty(it) THEN @
                                       ELSE Append(@, it._M_current)]
    /\ adv' = [adv EXCEPT ![k] = @ + 1]
    /\ _M_children' = children_after_visit(_M_children, io[k]._M_current)
    /\ UNCHANGED <<visitFrame, _Iteration, null_deref, bf, df, started, aborted>>

\* ------------------------------------------ handles owned by the client
\* The client holds local tree_ptr variables held[i] and reaches nodes
\* through them.  A place is something that holds a handle: a local
\* variable or a child slot of a reachable node.
Locals == 1..MaxLocals
NullSrc == <<"null", 0, 0>>
LocalPlace(i) == <<"held", i, 0>>
SlotPlace(n, q) == <<"child", n, q>>

\* the client's world: heap H and locals hd
World == [H |-> Heap, hd |-> held]

ReadPlace(E, p) ==
    IF p[1] = "held" THEN E.hd[p[2]] ELSE E.H.ch[p[2]][p[3]]
WritePlace(E, p, v) ==
    IF p[1] = "held" THEN [E EXCEPT !.hd[p[2]] = v]
    ELSE [E EXCEPT !.H.ch[p[2]][p[3]] = v]
PlaceExists(E, p) ==
    p[1] = "held" \/ (p[2] \in E.H.live /\ p[3] <= Len(E.H.ch[p[2]]))

\* nodes the client can reach from its locals
ReachableNodes(E) ==
    ReachFrom(E.H.ch, {E.hd[i] : i \in DOMAIN E.hd} \ {null}, MaxNodes)
Places(E) ==
    {LocalPlace(i) : i \in DOMAIN E.hd}
    \cup UNION {{SlotPlace(n, q) : q \in 1..Len(E.H.ch[n])} : n \in ReachableNodes(E)}

\* a handle constructed from std::move(place) without the source being
\* emptied
move_keeps_source(E, p) == [h |-> ReadPlace(E, p), E |-> E]

\* tree_ptr(std::move(place)): the new handle takes the node over and the
\* source is left absent
move_construct(E, p) ==
    [h |-> ReadPlace(E, p), E |-> WritePlace(E, p, null)]

\* a copy that does not count itself
copy_uncounted(E, p) == [h |-> ReadPlace(E, p), E |-> E]

\* tree_ptr(place), shared policy only: one more owner of the node
copy_construct(E, p) ==
    LET h == ReadPlace(E, p)
    IN [h |-> h,
        E |-> IF h = null THEN E ELSE [E EXCEPT !.H.uc[h] = @ + 1]]

\* the handle an argument expression yields: null(), std::move(p) or p
take(E, src, mv) ==
    IF src = NullSrc THEN [h |-> null, E |-> E]
    ELSE IF mv THEN move_construct(E, src)
    ELSE copy_construct(E, src)

\* dst = <handle h>: the old handle of dst is destroyed after dst is set
store(pol, E, dst, h) ==
    LET old == ReadPlace(E, dst)
        E1 == WritePlace(E, dst, h)
    IN [E1 EXCEPT !.H = DropHandle(pol, E1.H, old, 0)]

\* what the client passes as a handle: null() or a place that holds a
\* present handle (an absent one passes for null())
Sources(E) == {NullSrc} \cup {p \in Places(E) : ReadPlace(E, p) # null}

\* the argument lists of create_tree / make_children / set_children: null(),
\* std::move(held[j]) or (shared policy) held[j] for present locals, no
\* local moved from twice
ArgChoices(E, pol) ==
    {<<NullSrc, TRUE>>}
    \cup {<<LocalPlace(j), TRUE>> : j \in {i \in Locals : E.hd[i] # null}}
    \cup (IF pol = "shared"
          THEN {<<LocalPlace(j), FALSE>> : j \in {i \in Locals : E.hd[i] # null}}
          ELSE {})
ArgLists(E, pol) ==
    {args \in UNION {[1..len -> ArgChoices(E, pol)] : len \in 0..MaxWidth} :
        \A a, b \in DOMAIN args :
            (a < b /\ args[a][1] = args[b][1] /\ args[a][2]) => args[a][1] = NullSrc}

\* tree_ptr init[] = {std::forward<Args>(args)...}: left to right
RECURSIVE make_children(_, _)
make_children(E, args) ==
    IF args = <<>> THEN [hs |-> <<>>, E |-> E]
    ELSE LET t == take(E, Head(args)[1], Head(args)[2])
             r == make_children(t.E, Tail(args))
         IN [hs |-> <<t.h>> \o r.hs, E |-> r.E]

\* the node tree::create allocates: nodes are numbered in order of creation
FreshNodes(E) == {n \in 1..MaxAlloc : n \notin E.H.live /\ E.H.rel[n] = 0}
FreshNode(E) == CHOOSE n \in FreshNodes(E) : \A m \in FreshNodes(E) : n <= m

SetWorld(E) ==
    /\ SetHeap(E.H)
    /\ held' = E.hd

IdleOwn ==
    /\ current = null
    /\ parent = null
    /\ dpc = "idle"
    /\ dobs = [nest |-> 0, mark |-> null]

\* held[i] = create_tree(value, args...)
own_create(i, args) ==
    /\ dpc = "idle"
    /\ FreshNodes(World) # {}
    /\ LET n == FreshNode(World)
           m == make_children(World, args)
           E1 == [m.E EXCEPT !.H.ch[n] = m.hs, !.H.live = @ \cup {n},
                             !.H.uc[n] = IF policy = "shared" THEN 1 ELSE 0]
       IN SetWorld(store(policy, E1, LocalPlace(i), n))
    /\ UNCHANGED <<current, parent, dpc, dobs, ownFrame>>

\* dst = src, dst = std::move(src), dst = nullptr for two places
own_assign(dst, src, mv) ==
    /\ dpc = "idle"
    /\ dst # src
    /\ LET t == take(World, src, mv)
       IN SetWorld(store(policy, t.E, dst, t.h))
    /\ UNCHANGED <<current, parent, dpc, dobs, ownFrame>>

\* n.push_back(src), n.push_back(std::move(src))
own_push_back(n, src, mv) ==
    /\ dpc = "idle"
    /\ Len(_M_children[n]) < MaxWidth
    /\ LET t == take(World, src, mv)
       IN SetWorld([t.E EXCEPT !.H.ch[n] = Append(@, t.h)])
    /\ UNCHANGED <<current, parent, dpc, dobs, ownFrame>>

\* n.pop_back()
own_pop_back(n) ==
    /\ dpc = "idle"
    /\ _M_children[n] # <<>>
    /\ LET b == back(_M_children, n)
           H0 == [Heap EXCEPT !.ch[n] = SubSeq(@, 1, Len(@) - 1)]
       IN SetHeap(DropHandle(policy, H0, b, 0))
    /\ UNCHANGED <<held, current, parent, dpc, dobs, ownFrame>>

\* n.set_children(args...): the new vector is swapped in and the old one
\* destroyed
own_set_children(n, args) ==
    /\ dpc = "idle"
    /\ LET m == make_children(World, args)
           old == m.E.H.ch[n]
           E1 == [m.E EXCEPT !.H.ch[n] = m.hs]
       IN SetWorld([E1 EXCEPT !.H = DropAll(policy, E1.H, old, 0)])
    /\ UNCHANGED <<current, parent, dpc, dobs, ownFrame>>

\* n.remove_children()
own_remove_children(n) ==
    /\ dpc = "idle"
    /\ n \notin Descendants(_M_children, n)
    /\ LET S == rc_run(policy, n, [H |-> Heap, pc |-> "outer", children_ptr |-> n,
                                   popped |-> [h |-> null, kids |-> 0], depth |-> 0,
                                   descends |-> 0, pops |-> 0])
       IN SetHeap(S.H)
    /\ UNCHANGED <<held, current, parent, dpc, dobs, ownFrame>>

\* --------------------------------------------------------- tree::destroy
\* a sole slot is left alone
keep_sole(children) == children

\* avoid_sole
avoid_sole(children) ==
    IF Len(children) = 1 THEN children \o <<null>> ELSE children

\* remove_null_but_avoid_sole
remove_null_but_avoid_sole(children) == avoid_sole(SelectSeq(children, IsPresent))

\* n handles that were moved from: they are null
RECURSIVE moved_from(_)
moved_from(n) == IF n = 0 THEN <<>> ELSE <<null>> \o moved_from(n - 1)

\* the block without the rotation: parent is always reset
destroy_rotate_drops_parent(pol, D) ==
    [D EXCEPT !.H = DropHandle(pol, D.H, D.parent, 0), !.parent = null]

\* the block left out: no assertion, no rotation, parent stays
destroy_rotate_skipped(pol, D) == D

\* the block "if (parent) { ... }" for current c and present parent p
destroy_rotate(pol, D) ==
    LET c == D.current
        p == D.parent
        ch == D.H.ch
    IN IF ~(Len(ch[p]) > 0 /\ ch[p][1] = null)
       THEN [D EXCEPT !.ok = FALSE]
       ELSE IF Len(ch[p]) > 1 /\ ch[p][2] # null
       THEN LET \* parent->_M_children.insert(end, move(begin + 2), move(end))
                chP == IF Len(ch[c]) > 2
                       THEN ch[p] \o SubSeq(ch[c], 3, Len(ch[c]))
                       ELSE ch[p]
                chC0 == IF Len(ch[c]) > 2
                        THEN SubSeq(ch[c], 1, 2) \o moved_from(Len(ch[c]) - 2)
                        ELSE ch[c]
                chC1 == avoid_sole(chC0)
                \* parent->_M_children[0] = std::move(current->_M_children[1]);
                chP1 == [chP EXCEPT ![1] = chC1[2]]
                \* current->_M_children[1] = std::move(parent);
                chC2 == [chC1 EXCEPT ![2] = p]
            IN IF Len(chC1) < 2
               THEN [D EXCEPT !.oob = TRUE]
               ELSE [D EXCEPT !.H.ch[p] = chP1, !.H.ch[c] = chC2,
                              !.parent = null]
       ELSE \* parent = nullptr;
            [D EXCEPT !.H = DropHandle(pol, D.H, p, 0), !.parent = null]

\* the statements after "Now parent is null"
destroy_descend(pol, D) ==
    LET c == D.current
        ch == D.H.ch
    IN IF Len(ch[c]) < 1
       THEN [D EXCEPT !.oob = TRUE]
       ELSE IF ch[c][1] # null
       THEN \* parent = std::move(current); current = std::move(parent->_M_children[0]);
            LET H1 == DropHandle(pol, D.H, D.parent, 0)
            IN [D EXCEPT !.H = [H1 EXCEPT !.ch[c][1] = null],
                         !.parent = c, !.current = ch[c][1]]
       ELSE IF Len(ch[c]) = 2
       THEN \* current = std::move(current->_M_children[1]);
            LET H0 == [D.H EXCEPT !.ch[c][2] = null]
            IN [D EXCEPT !.H = DropHandle(pol, H0, c, 0), !.current = ch[c][2]]
       ELSE [D EXCEPT !.H.ch[c] = remove_null_but_avoid_sole(ch[c])]

\* an iteration that does not go up from a node without children
destroy_iteration_stops_at_leaf(pol, D) ==
    IF D.H.ch[D.current] = <<>>
    THEN [D EXCEPT !.H = DropHandle(pol, D.H, D.current, 0), !.current = null]
    ELSE LET D1 == IF D.parent # null THEN destroy_rotate(pol, D) ELSE D
         IN IF D1.ok /\ ~D1.oob
            THEN destroy_descend(pol, [D1 EXCEPT !.mark = D1.parent])
            ELSE D1

\* one iteration of while (current), current being present
destroy_iteration(pol, D) ==
    IF D.H.ch[D.current] = <<>>
    THEN \* current = std::move(parent);
         [D EXCEPT !.H = DropHandle(pol, D.H, D.current, 0),
                   !.current = D.parent, !.parent = null]
    ELSE LET D1 == IF D.parent # null THEN destroy_rotate(pol, D) ELSE D
         IN IF D1.ok /\ ~D1.oob
            THEN destroy_descend(pol, [D1 EXCEPT !.mark = D1.parent])
            ELSE D1

\* tree::destroy(held[i]): auto current = std::move(ptr); auto parent = null();
destroy_call(i) ==
    /\ dpc = "idle"
    /\ LET t == move_construct(World, LocalPlace(i))
       IN /\ current' = t.h
          /\ held' = t.E.hd
    /\ parent' = null
    /\ dpc' = "loop"
    /\ dobs' = [nest |-> 0, mark |-> null]
    /\ UNCHANGED <<_M_children, live, use_count, released, ownFrame>>

\* while (current) { ... }
destroy_loop ==
    /\ dpc = "loop"
    /\ current # null
    /\ LET D == destroy_iteration(policy, [H |-> Heap, current |-> current,
                                           parent |-> parent, ok |-> TRUE,
                                           oob |-> FALSE, mark |-> dobs.mark])
       IN /\ SetHeap(D.H)
          /\ current' = D.current
          /\ parent' = D.parent
          /\ dpc' = IF D.oob THEN "out_of_bounds"
                    ELSE IF D.ok THEN "loop" ELSE "assert_failed"
          /\ dobs' = [nest |-> D.H.nest, mark |-> D.mark]
    /\ UNCHANGED <<held, ownFrame>>

\* destroy returns
destroy_return ==
    /\ dpc = "loop"
    /\ current = null
    /\ dpc' = "idle"
    /\ UNCHANGED <<heapVars, current, parent, dobs, ownFrame>>

\* ------------------------------------- the children sequence as a list
\* what the list operations of the client leave alone
seqFrame == <<policy, rcVars, tree0, travVars, ownVars, lrVars, bufVars>>

IdleSeq == ref = [n \in Nodes |-> <<>>]

\* the reference lists r once the heap is H: the list of a destroyed node
\* is gone
SetRef(r, H) == ref' = [n \in Nodes |-> IF n \in H.live THEN r[n] ELSE <<>>]

\* a push_back that puts the handle in front
vector_push_front(v, h) == <<h>> \o v

\* _M_children.push_back(std::move(ptr))
vector_push_back(v, h) == Append(v, h)

\* _M_children.pop_back()
vector_pop_back(v) == SubSeq(v, 1, Len(v) - 1)

\* the handles a client passes to the list operations: null(), a local, or
\* std::move of a local
LocalSources(E) == {NullSrc} \cup {LocalPlace(j) : j \in {i \in Locals : E.hd[i] # null}}

\* held[i] = create_tree(value): a node without children
seq_create(i) ==
    /\ FreshNodes(World) # {}
    /\ LET n == FreshNode(World)
           E1 == [World EXCEPT !.H.live = @ \cup {n},
                               !.H.uc[n] = IF policy = "shared" THEN 1 ELSE 0]
           E2 == store(policy, E1, LocalPlace(i), n)
       IN /\ SetWorld(E2)
          /\ SetRef([ref EXCEPT ![n] = <<>>], E2.H)
    /\ UNCHANGED seqFrame

\* n.push_back(h)
seq_push_back(n, src, mv) ==
    /\ Len(_M_children[n]) < MaxWidth
    /\ LET t == take(World, src, mv)
           E2 == [t.E EXCEPT !.H.ch[n] = vector_push_back(@, t.h)]
       IN /\ SetWorld(E2)
          /\ SetRef([ref EXCEPT ![n] = Append(@, t.h)], E2.H)
    /\ UNCHANGED seqFrame

\* n.pop_back(), n having a child slot
seq_pop_back(n) ==
    /\ _M_children[n] # <<>>
    /\ LET b == back(_M_children, n)
           H0 == [Heap EXCEPT !.ch[n] = vector_pop_back(@)]
           H1 == DropHandle(policy, H0, b, 0)
       IN /\ SetHeap(H1)
          /\ SetRef([ref EXCEPT ![n] = SubSeq(@, 1, Len(@) - 1)], H1)
    /\ UNCHANGED <<held, seqFrame>>

\* n.child(i) = h, with i < n.child_count() (i counted from 0 in the code,
\* q = i + 1 here)
seq_set_child(n, q, src, mv) ==
    /\ q \in 1..child_count(_M_children, n)
    /\ LET t == take(World, src, mv)
           E2 == store(policy, t.E, SlotPlace(n, q), t.h)
       IN /\ SetWorld(E2)
          /\ SetRef([ref EXCEPT ![n] = [@ EXCEPT ![q] = t.h]], E2.H)
    /\ UNCHANGED seqFrame

\* ------------------------------------------------------- line readers
\* A byte is a number; a file content, a line and a buffer are sequences
\* of bytes.  The model has three byte values: NUL, LF and one more.
NUL == 0
LF == 10
Semicolon == 59
Bytes == {NUL, LF, Semicolon}
Delimiters == {LF, Semicolon}
\* the contents the client's file can have
Contents == UNION {[1..len -> Bytes] : len \in 0..MaxLen}
LineReaders == {"basic_mmap_line_reader", "file_line_reader"}
OobReads == {"lf", "other"}

\* what the line readers leave alone
lrFrame == <<heapVars, rcVars, tree0, travVars, ownVars, seqVars, bufVars>>

Take(s, n) == SubSeq(s, 1, n)
Min(a, b) == IF a < b THEN a ELSE b

\* --- basic_mmap_line_reader
\* mmap_reader_base::size() and mmap_reader_base::data()[pos], pos from 0
size == Len(content)
data(pos) == content[pos + 1]

\* the scan that ignores the delimiter
mm_scan_to_end(pos) == [pos |-> size, found_delimiter |-> FALSE]

\* while (pos < size()) { char ch = data()[pos++]; if (ch == _M_delimiter) ... }
RECURSIVE mm_scan(_)
mm_scan(pos) ==
    IF pos < size
    THEN IF data(pos) = _M_delimiter
         THEN [pos |-> pos + 1, found_delimiter |-> TRUE]
         ELSE mm_scan(pos + 1)
    ELSE [pos |-> pos, found_delimiter |-> FALSE]

\* bool basic_mmap_line_reader<_Tp>::read(_Tp& output, size_t& offset)
mm_read(offset) ==
    IF offset = size
    THEN [ok |-> FALSE, output |-> <<>>, offset |-> offset]
    ELSE LET s == mm_scan(offset)
             n == s.pos - offset
                  - (IF s.found_delimiter /\ _M_strip_delimiter THEN 1 ELSE 0)
         IN [ok |-> TRUE,
             \* _Tp(data() + offset, n)
             output |-> SubSeq(content, offset + 1, offset + n),
             offset |-> s.pos]

\* an operator++ that does not store the end offset of the line
mm_increment_keeps_offset(it) ==
    IF ~mm_read(it._M_offset).ok
    THEN [it EXCEPT !._M_reader = "nullptr", !._M_offset = 0]
    ELSE [it EXCEPT !._M_line = mm_read(it._M_offset).output]

\* iterator() = default
mm_default == [_M_reader |-> "nullptr", _M_offset |-> 0, _M_line |-> <<>>]

\* iterator& operator++()
mm_increment(it) ==
    LET r == mm_read(it._M_offset)
    IN IF ~r.ok
       THEN [it EXCEPT !._M_reader = "nullptr", !._M_offset = 0]
       ELSE [it EXCEPT !._M_line = r.output, !._M_offset = r.offset]

\* explicit iterator(basic_mmap_line_reader* reader)
mm_iterator == mm_increment([mm_default EXCEPT !._M_reader = "reader"])

\* bool operator==(const iterator& rhs)
mm_eq(a, b) == a._M_reader = b._M_reader /\ a._M_offset = b._M_offset

\* --- file_line_reader
\* fgets(s, n, stream) on the stream at position pos: at most n - 1 bytes,
\* up to and including the first LF; a null result at end of file
RECURSIVE fgets_bytes(_, _)
fgets_bytes(n, pos) ==
    IF n <= 1 \/ pos >= Len(content) THEN <<>>
    ELSE IF content[pos + 1] = LF THEN <<LF>>
    ELSE <<content[pos + 1]>> \o fgets_bytes(n - 1, pos + 1)
fgets(n, pos) ==
    LET got == fgets_bytes(n, pos)
    IN [ok |-> got # <<>>, s |-> got, pos |-> pos + Len(got)]

\* strlen(s) of the buffer fgets filled with the bytes s and a final NUL
RECURSIVE strlen(_)
strlen(s) ==
    IF s = <<>> \/ Head(s) = NUL THEN 0 ELSE 1 + strlen(Tail(s))

\* fread(_M_buffer, 1, BUFFER_SIZE, stream) on the stream at position pos
fread(pos) ==
    LET got == SubSeq(content, pos + 1, Min(pos + BUFFER_SIZE, Len(content)))
    IN [s |-> got, pos |-> pos + Len(got)]

\* The state S of one call of read: R the reader object with its stream, the
\* bytes output[0 .. write_pos - 1] written to the output buffer, its
\* capacity, found_delimiter.
\*
\* get_line, the body of for (;;) after fgets returned the bytes f.s: S1 is
\* S with write_pos += len and the stream moved on
RECURSIVE get_line(_)
\* an access of output[i]: in_bounds is lost if i is outside [0, capacity)
Within(S, i) == [S EXCEPT !.in_bounds = @ /\ 0 <= i /\ i < S.capacity]
get_line_last_is_lf(S1) ==
    \* output[write_pos - 1] == '\n'
    IF S1.write_pos = 0 THEN oob_read = "lf" ELSE S1.output[S1.write_pos] = LF
get_line_tail(S1) ==
    IF get_line_last_is_lf(S1)
    THEN [S1 EXCEPT !.found_delimiter = TRUE]
    ELSE IF S1.write_pos + 1 = S1.capacity
    THEN \* output = expand(output, write_pos, capacity * 2); capacity *= 2;
         get_line([S1 EXCEPT !.capacity = @ * 2])
    ELSE get_line(S1)
get_line_got(S, f) ==
    IF ~f.ok THEN S
    ELSE \* fgets stores f.s and a NUL from output[write_pos] on; then
         \* output[write_pos - 1] is read
         get_line_tail([Within(Within(S, S.write_pos + Len(f.s)),
                               S.write_pos + strlen(f.s) - 1)
                           EXCEPT !.R.pos = f.pos,
                                  !.output = @ \o Take(f.s, strlen(f.s)),
                                  !.write_pos = @ + strlen(f.s)])
\* for (;;) { if (!fgets(output + write_pos, capacity - write_pos, stream)) break; ... }
get_line(S) == get_line_got(S, fgets(S.capacity - S.write_pos, S.R.pos))

\* the loop of read for a delimiter other than LF: R1 is the reader after
\* the refill of _M_buffer, if one was due
RECURSIVE read_buffered(_)
read_refill(R, f) ==
    IF R._M_read_pos = R._M_size
    THEN [R EXCEPT !._M_read_pos = 0, !._M_size = Len(f.s),
                   !._M_buffer = IF f.s = <<>> THEN @ ELSE f.s,
                   !.pos = f.pos]
    ELSE R
read_put(S, ch) ==
    IF ch = _M_delimiter THEN [S EXCEPT !.found_delimiter = TRUE]
    ELSE read_buffered(S)
read_char(S, R1) ==
    IF R1._M_size = 0 THEN [S EXCEPT !.R = R1]
    ELSE read_put([Within([S EXCEPT !.capacity = IF S.write_pos + 1 = S.capacity
                                                 THEN @ * 2 ELSE @],
                          S.write_pos)
                      EXCEPT !.R = [R1 EXCEPT !._M_read_pos = @ + 1],
                             !.output = Append(@, R1._M_buffer[R1._M_read_pos + 1]),
                             !.write_pos = @ + 1],
                  R1._M_buffer[R1._M_read_pos + 1])
read_buffered(S) == read_char(S, read_refill(S.R, fread(S.R.pos)))

\* the end of read, from _M_offset += write_pos on
read_result(S) ==
    IF S.write_pos # 0
    THEN [ok |-> TRUE, R |-> [S.R EXCEPT !._M_offset = @ + S.write_pos],
          output |-> Take(S.output, S.write_pos
                        - (IF S.found_delimiter /\ _M_strip_delimiter THEN 1 ELSE 0)),
          size |-> S.write_pos
                   - (IF S.found_delimiter /\ _M_strip_delimiter THEN 1 ELSE 0),
          capacity |-> S.capacity,
          \* output[write_pos] = '\0'
          in_bounds |-> Within(S, S.write_pos
                        - (IF S.found_delimiter /\ _M_strip_delimiter THEN 1 ELSE 0)
                        ).in_bounds]
    ELSE [ok |-> FALSE, R |-> S.R, output |-> <<>>, size |-> 0,
          capacity |-> S.capacity, in_bounds |-> S.in_bounds]

read_start(R, capacity) ==
    [R |-> R, output |-> <<>>, write_pos |-> 0, capacity |-> capacity,
     found_delimiter |-> FALSE, in_bounds |-> TRUE]

\* bool file_line_reader::read(char*& output, size_t& size, size_t& capacity)
fl_read(R, capacity) ==
    read_result(IF _M_delimiter = LF THEN get_line(read_start(R, capacity))
                ELSE read_buffered(read_start(R, capacity)))

\* file_line_reader(FILE* stream, char delimiter, strip_type strip) on a
\* stream at its start
file_line_reader == [pos |-> 0, _M_buffer |-> <<>>, _M_offset |-> 0,
                     _M_read_pos |-> 0, _M_size |-> 0]

\* iterator() = default
fl_default == [_M_reader |-> "nullptr", _M_offset |-> 0, _M_line |-> <<>>,
               _M_size |-> 0, _M_capacity |-> 0]

\* iterator& operator++() after read returned r: the iterator and the reader
fl_after_read(it, r) ==
    [R |-> r.R, in_bounds |-> r.in_bounds,
     it |-> IF ~r.ok
            THEN [it EXCEPT !._M_reader = "nullptr", !._M_offset = 0,
                            !._M_capacity = r.capacity]
            ELSE [it EXCEPT !._M_offset = r.R._M_offset, !._M_line = r.output,
                            !._M_size = r.size, !._M_capacity = r.capacity]]

\* iterator& operator++()
fl_increment(it, R) == fl_after_read(it, fl_read(R, it._M_capacity))

\* iterator::iterator(file_line_reader* reader)
fl_iterator(R) ==
    fl_increment([fl_default EXCEPT !._M_reader = "reader",
                                    !._M_capacity = BUFFER_SIZE], R)

\* bool operator==(const iterator& rhs)
fl_eq(a, b) == a._M_reader = b._M_reader /\ a._M_offset = b._M_offset

\* for (auto line : reader) on a basic_mmap_line_reader: the lines from the
\* iterator state it on
RECURSIVE mm_lines_from(_)
mm_lines_from(it) ==
    IF mm_eq(it, mm_default) THEN <<>>
    ELSE <<it._M_line>> \o mm_lines_from(mm_increment(it))
mm_lines == mm_lines_from(mm_iterator)

\* for (auto line : reader) on a file_line_reader: the lines from the state
\* x.it of the iterator and x.R of the reader on
RECURSIVE fl_lines_from(_)
fl_lines_from(x) ==
    IF fl_eq(x.it, fl_default) THEN <<>>
    ELSE <<x.it._M_line>> \o fl_lines_from(fl_increment(x.it, x.R))
fl_lines == fl_lines_from(fl_iterator(file_line_reader))

IdleLines ==
    /\ lr_class = "none"
    /\ content = <<>>
    /\ _M_delimiter = LF
    /\ _M_strip_delimiter = TRUE
    /\ oob_read = "other"
    /\ mm = [k \in Its |-> mm_default]
    /\ fl = [k \in Its |-> fl_default]
    /\ file_reader = file_line_reader
    /\ lr_started = {}
    /\ lr_out = [k \in Its |-> <<>>]
    /\ output_in_bounds = TRUE

\* iterator object k = reader.begin(), basic_mmap_line_reader
mm_begin(k) ==
    /\ lr_class = "basic_mmap_line_reader"
    /\ k \notin lr_started
    /\ mm' = [mm EXCEPT ![k] = mm_iterator]
    /\ lr_started' = lr_started \cup {k}
    /\ lr_out' = [lr_out EXCEPT ![k] = IF mm_iterator._M_reader = "nullptr"
                                       THEN <<>> ELSE <<mm_iterator._M_line>>]
    /\ UNCHANGED <<lr_class, content, _M_delimiter, _M_strip_delimiter, oob_read,
                   fl, file_reader, output_in_bounds, lrFrame>>

\* ++ on the iterator object k, which is not end()
mm_advance(k) ==
    /\ lr_class = "basic_mmap_line_reader"
    /\ k \in lr_started
    /\ mm[k]._M_reader # "nullptr"
    /\ LET it == mm_increment(mm[k])
       IN /\ mm' = [mm EXCEPT ![k] = it]
          /\ lr_out' = [lr_out EXCEPT ![k] = IF it._M_reader = "nullptr"
                                             THEN @ ELSE Append(@, it._M_line)]
    /\ UNCHANGED <<lr_class, content, _M_delimiter, _M_strip_delimiter, oob_read,
                   fl, file_reader, lr_started, output_in_bounds, lrFrame>>

\* the iterator object k takes the state r.it, the reader r.R
fl_set(k, r) ==
    /\ fl' = [fl EXCEPT ![k] = r.it]
    /\ file_reader' = r.R
    /\ output_in_bounds' = (output_in_bounds /\ r.in_bounds)
    /\ lr_out' = [lr_out EXCEPT ![k] = IF r.it._M_reader = "nullptr"
                                       THEN @ ELSE Append(@, r.it._M_line)]

\* iterator object k = reader.begin(), file_line_reader
fl_begin(k) ==
    /\ lr_class = "file_line_reader"
    /\ k \notin lr_started
    /\ fl_set(k, fl_iterator(file_reader))
    /\ lr_started' = lr_started \cup {k}
    /\ UNCHANGED <<lr_class, content, _M_delimiter, _M_strip_delimiter, oob_read,
                   mm, lrFrame>>

\* ++ on the iterator object k, which is not end()
fl_advance(k) ==
    /\ lr_class = "file_line_reader"
    /\ k \in lr_started
    /\ fl[k]._M_reader # "nullptr"
    /\ fl_set(k, fl_increment(fl[k], file_reader))
    /\ UNCHANGED <<lr_class, content, _M_delimiter, _M_strip_delimiter, oob_read,
                   mm, lr_started, lrFrame>>

\* ------------------------------- lifetime of file_line_reader::_M_buffer
MaxReaders == 3
MaxBuffers == 2
\* the client's file_line_reader objects and the buffers of new char[]
Readers == 1..MaxReaders
Buffers == 1..MaxBuffers
nullptr == 0
DoubleDeletes == {"abort", "unnoticed"}

\* what the file_line_reader objects leave alone
bufFrame == <<heapVars, rcVars, tree0, travVars, ownVars, seqVars, lrVars>>

\* no object was constructed yet
flr_none == [life |-> "none", _M_delimiter |-> LF, _M_buffer |-> nullptr]

IdleBuf ==
    /\ flr = [o \in Readers |-> flr_none]
    /\ news = 0
    /\ deletes = [b \in Buffers |-> 0]
    /\ double_delete = "abort"
    /\ crashed = FALSE

\* file_line_reader o(stream, delimiter, strip)
flr_construct(o, delimiter) ==
    /\ ~crashed
    /\ flr[o].life = "none"
    /\ delimiter # LF => news < MaxBuffers
    /\ flr' = [flr EXCEPT ![o] = [life |-> "alive", _M_delimiter |-> delimiter,
                                  _M_buffer |-> IF delimiter = LF THEN nullptr
                                                ELSE news + 1]]
    /\ news' = IF delimiter = LF THEN news ELSE news + 1
    /\ UNCHANGED <<deletes, double_delete, crashed, bufFrame>>

\* what file_line_reader(file_line_reader&&) = default and the defaulted move
\* assignment leave in the source: every member is a scalar, moved by copy
flr_moved_from(src) == src

\* file_line_reader dst(std::move(src))
flr_move_construct(dst, src) ==
    /\ ~crashed
    /\ dst # src
    /\ flr[dst].life = "none"
    /\ flr[src].life = "alive"
    /\ flr' = [flr EXCEPT ![dst] = flr[src], ![src] = flr_moved_from(flr[src])]
    /\ UNCHANGED <<news, deletes, double_delete, crashed, bufFrame>>

\* dst = std::move(src)
flr_move_assign(dst, src) ==
    /\ ~crashed
    /\ dst # src
    /\ flr[dst].life = "alive"
    /\ flr[src].life = "alive"
    /\ flr' = [flr EXCEPT ![dst] = flr[src], ![src] = flr_moved_from(flr[src])]
    /\ UNCHANGED <<news, deletes, double_delete, crashed, bufFrame>>

\* ~file_line_reader() of the object o: delete[] _M_buffer
flr_destroy(o) ==
    /\ ~crashed
    /\ flr[o].life = "alive"
    /\ flr' = [flr EXCEPT ![o].life = "destroyed"]
    /\ IF flr[o]._M_buffer = nullptr
       THEN UNCHANGED <<deletes, crashed>>
       ELSE /\ deletes' = [deletes EXCEPT ![flr[o]._M_buffer] = @ + 1]
            /\ crashed' = (deletes[flr[o]._M_buffer] > 0
                             /\ double_delete = "abort")
    /\ UNCHANGED <<news, double_delete, bufFrame>>

\* ------------------------------------------------------ specifications
InitRC ==
    /\ \E t \in Trees, pol \in Policies :
         \E hd \in [1..MaxHeld -> {null} \cup (IF pol = "shared" THEN 2..t.n ELSE {})] :
            InitHeap(t, pol, hd)
    /\ tree0 = _M_children
    /\ IdleRC
    /\ IdleTrav
    /\ IdleOwn
    /\ IdleSeq
    /\ IdleBuf
    /\ IdleLines

NextRC ==
    \/ rc_call
    \/ rc_outer
    \/ rc_inner
    \/ rc_descend
    \/ rc_pop_back

SpecRC == InitRC /\ [][NextRC]_vars


\* The client builds a tree, picks an iteration class and walks the tree
\* with two iterator objects.
InitTrav ==
    /\ \E t \in Trees : InitHeap(t, "shared", [k \in 1..MaxHeld |-> null])
    /\ tree0 = _M_children
    /\ IdleRC
    /\ _Iteration \in Iterations
    /\ null_deref \in (IF _Iteration = "depth_first_iteration"
                       THEN NullDerefs ELSE {"nullptr"})
    /\ bf = [k \in Its |-> bf_default]
    /\ df = [k \in Its |-> df_default]
    /\ io = [k \in Its |-> io_default]
    /\ started = {}
    /\ adv = [k \in Its |-> 0]
    /\ out = [k \in Its |-> <<>>]
    /\ aborted = FALSE
    /\ IdleOwn
    /\ IdleSeq
    /\ IdleBuf
    /\ IdleLines

NextTrav ==
    \E k \in Its :
        \/ bf_begin(k)
        \/ bf_advance(k)
        \/ df_begin(k)
        \/ df_advance(k)
        \/ io_begin(k)
        \/ io_advance(k)

SpecTrav == InitTrav /\ [][NextTrav]_vars

\* The client starts with no node and works on handles under the unique
\* policy.
InitUnique ==
    /\ policy = "unique"
    /\ _M_children = [n \in Nodes |-> <<>>]
    /\ live = {}
    /\ use_count = [n \in Nodes |-> 0]
    /\ released = [n \in Nodes |-> 0]
    /\ held = [i \in Locals |-> null]
    /\ tree0 = _M_children
    /\ IdleRC
    /\ IdleTrav
    /\ IdleOwn
    /\ IdleSeq
    /\ IdleBuf
    /\ IdleLines

NextUnique ==
    \/ \E i \in Locals, args \in ArgLists(World, policy) : own_create(i, args)
    \/ \E dst \in Places(World), src \in Sources(World) :
          own_assign(dst, src, TRUE)
    \/ \E n \in ReachableNodes(World), src \in Sources(World) :
          own_push_back(n, src, TRUE)
    \/ \E n \in ReachableNodes(World) : own_pop_back(n)
    \/ \E n \in ReachableNodes(World), args \in ArgLists(World, policy) :
          own_set_children(n, args)
    \/ \E n \in ReachableNodes(World) : own_remove_children(n)
    \/ \E i \in Locals : destroy_call(i)
    \/ destroy_loop
    \/ destroy_return

SpecUnique == InitUnique /\ [][NextUnique]_vars

\* The same client under the shared policy, copying handles as well.
InitShared ==
    /\ policy = "shared"
    /\ _M_children = [n \in Nodes |-> <<>>]
    /\ live = {}
    /\ use_count = [n \in Nodes |-> 0]
    /\ released = [n \in Nodes |-> 0]
    /\ held = [i \in Locals |-> null]
    /\ tree0 = _M_children
    /\ IdleRC
    /\ IdleTrav
    /\ IdleOwn
    /\ IdleSeq
    /\ IdleBuf
    /\ IdleLines

NextShared ==
    \/ \E i \in Locals, args \in ArgLists(World, policy) : own_create(i, args)
    \/ \E dst \in Places(World), src \in Sources(World), mv \in BOOLEAN :
          own_assign(dst, src, mv)
    \/ \E n \in ReachableNodes(World), src \in Sources(World), mv \in BOOLEAN :
          own_push_back(n, src, mv)
    \/ \E n \in ReachableNodes(World) : own_pop_back(n)

SpecShared == InitShared /\ [][NextShared]_vars

\* remove_children on a tree of the shared policy in which one node may be
\* attached under two parents, the client holding handles of its own.
\* An alias <<n, q, m>> puts a second handle to node m into the absent slot
\* q of node n; m is neither n nor an ancestor of n, so that the parent-child
\* relation stays acyclic.
Aliases(t) ==
    {a \in (1..t.n) \X (1..MaxSlots) \X (2..t.n) :
        /\ a[2] \in DOMAIN t.ch[a[1]]
        /\ t.ch[a[1]][a[2]] = null
        /\ a[1] \notin Descendants(t.ch, a[3]) \cup {a[3]}}
NoAlias == <<0, 0, 0>>
Aliased(t, a) == IF a = NoAlias THEN t.ch ELSE [t.ch EXCEPT ![a[1]][a[2]] = a[3]]
SlotsOf(ch, m) ==
    UNION {{<<n, q>> : q \in {r \in DOMAIN ch[n] : ch[n][r] = m}} : n \in DOMAIN ch}

InitDag ==
    /\ \E t \in Trees :
         \E hd \in [1..MaxHeld -> {null} \cup (2..t.n)], a \in Aliases(t) \cup {NoAlias} :
            /\ policy = "shared"
            /\ _M_children = Aliased(t, a)
            /\ live = 1..t.n
            /\ use_count = [i \in Nodes |->
                              IF i > t.n THEN 0
                              ELSE (IF i = root THEN 1 ELSE 0)
                                   + Cardinality(SlotsOf(Aliased(t, a), i))
                                   + Cardinality({k \in DOMAIN hd : hd[k] = i})]
            /\ released = [i \in Nodes |-> 0]
            /\ held = hd
    /\ tree0 = _M_children
    /\ IdleRC
    /\ IdleTrav
    /\ IdleOwn
    /\ IdleSeq
    /\ IdleBuf
    /\ IdleLines

SpecDag == InitDag /\ [][NextRC]_vars

\* The call of remove_children, once made, keeps running: the thread that
\* executes it is scheduled until the call returns.
rc_running == rc_outer \/ rc_inner \/ rc_descend \/ rc_pop_back
SpecDagFair == InitDag /\ [][NextRC]_vars /\ WF_vars(rc_running)

\* tree::destroy(ptr) on a tree of the unique policy, ptr being the first
\* local of the client, and destroy of an absent ptr; a call that was made
\* runs until it returns.
InitDestroy ==
    /\ \E t \in Trees :
         InitHeap(t, "unique", [i \in Locals |-> IF i = 1 THEN root ELSE null])
    /\ tree0 = _M_children
    /\ IdleRC
    /\ IdleTrav
    /\ IdleOwn
    /\ IdleSeq
    /\ IdleBuf
    /\ IdleLines

NextDestroy ==
    \/ \E i \in Locals : destroy_call(i)
    \/ destroy_loop
    \/ destroy_return

SpecDestroy ==
    InitDestroy /\ [][NextDestroy]_vars /\ WF_vars(destroy_loop \/ destroy_return)

\* The client creates nodes and uses their children sequences as lists.
InitSeq ==
    /\ policy \in Policies
    /\ _M_children = [n \in Nodes |-> <<>>]
    /\ live = {}
    /\ use_count = [n \in Nodes |-> 0]
    /\ released = [n \in Nodes |-> 0]
    /\ held = [i \in Locals |-> null]
    /\ tree0 = _M_children
    /\ IdleRC
    /\ IdleTrav
    /\ IdleOwn
    /\ IdleSeq
    /\ IdleBuf
    /\ IdleLines

NextSeq ==
    \/ \E i \in Locals : seq_create(i)
    \/ \E n \in ReachableNodes(World), src \in LocalSources(World), mv \in BOOLEAN :
          (mv \/ policy = "shared") /\ seq_push_back(n, src, mv)
    \/ \E n \in ReachableNodes(World) : seq_pop_back(n)
    \/ \E n \in ReachableNodes(World), q \in 1..MaxWidth,
          src \in LocalSources(World), mv \in BOOLEAN :
          (mv \/ policy = "shared") /\ seq_set_child(n, q, src, mv)

SpecSeq == InitSeq /\ [][NextSeq]_vars

\* The client opens a file with one of the line readers and reads its lines
\* through two iterator objects.
InitLines ==
    /\ lr_class \in LineReaders
    /\ content \in Contents
    /\ _M_delimiter \in Delimiters
    /\ _M_strip_delimiter \in BOOLEAN
    /\ oob_read \in (IF lr_class = "file_line_reader" /\ _M_delimiter = LF
                        /\ \E p \in DOMAIN content : content[p] = NUL
                     THEN OobReads ELSE {"other"})
    /\ mm = [k \in Its |-> mm_default]
    /\ fl = [k \in Its |-> fl_default]
    /\ file_reader = file_line_reader
    /\ lr_started = {}
    /\ lr_out = [k \in Its |-> <<>>]
    /\ output_in_bounds = TRUE
    /\ policy = "shared"
    /\ _M_children = [n \in Nodes |-> <<>>]
    /\ live = {}
    /\ use_count = [n \in Nodes |-> 0]
    /\ released = [n \in Nodes |-> 0]
    /\ held = [i \in Locals |-> null]
    /\ tree0 = _M_children
    /\ IdleRC
    /\ IdleTrav
    /\ IdleOwn
    /\ IdleSeq
    /\ IdleBuf

NextLines ==
    \E k \in Its :
        \/ mm_begin(k)
        \/ mm_advance(k)
        \/ fl_begin(k)
        \/ fl_advance(k)

SpecLines == InitLines /\ [][NextLines]_vars

\* The client constructs, moves and destroys file_line_reader objects.
InitBuf ==
    /\ flr = [o \in Readers |-> flr_none]
    /\ news = 0
    /\ deletes = [b \in Buffers |-> 0]
    /\ double_delete \in DoubleDeletes
    /\ crashed = FALSE
    /\ policy = "shared"
    /\ _M_children = [n \in Nodes |-> <<>>]
    /\ live = {}
    /\ use_count = [n \in Nodes |-> 0]
    /\ released = [n \in Nodes |-> 0]
    /\ held = [i \in Locals |-> null]
    /\ tree0 = _M_children
    /\ IdleRC
    /\ IdleTrav
    /\ IdleOwn
    /\ IdleSeq
    /\ IdleLines

NextBuf ==
    \E o \in Readers :
        \/ \E delimiter \in Delimiters : flr_construct(o, delimiter)
        \/ \E src \in Readers : flr_move_construct(o, src)
        \/ \E src \in Readers : flr_move_assign(o, src)
        \/ flr_destroy(o)

SpecBuf == InitBuf /\ [][NextBuf]_vars

\* --------------------------------------------------------------- claims
HeldNodes == {held[k] : k \in DOMAIN held} \ {null}
Desc0 == Descendants(tree0, root)

\* C1 as stated: when remove_children has returned, the root has no child
\* slot left and every node that was a descendant of the root has been
\* released exactly once.
C1_AllDescendantsReleased ==
    pc = "done" =>
        /\ child_count(_M_children, root) = 0
        /\ \A n \in Desc0 : released[n] = 1 /\ n \notin live

\* C1 amended: when remove_children has returned, the root has no child slot
\* left and every former descendant on which the client holds no handle of
\* its own has been released exactly once, while a descendant the client
\* still holds (shared policy) is alive and not released; no node is ever
\* released twice.
C1_ReleasedUnlessHeld ==
    /\ \A n \in Nodes : released[n] <= 1
    /\ pc = "done" =>
        /\ child_count(_M_children, root) = 0
        /\ \A n \in Desc0 \ HeldNodes : released[n] = 1 /\ n \notin live
        /\ \A n \in Desc0 \cap HeldNodes : released[n] = 0 /\ n \in live

\* remove_children returned on a tree of depth two or more with absent
\* slots, one descendant being held by the client
C1_Witness ==
    /\ pc = "done"
    /\ Cardinality(Desc0) >= 3
    /\ Desc0 \cap HeldNodes # {}
    /\ \E n \in Desc0 : PresentKids(tree0, n) # {}
    /\ \E n \in Desc0 \cup {root} : \E q \in 1..Len(tree0[n]) : tree0[n][q] = null

\* C2: every slot that pop_back removes during remove_children is absent
\* or refers to a node whose children sequence is empty at that moment, so
\* that ~tree() never runs nested inside another ~tree().
C2_PopsOnlyLeaves ==
    /\ popped.h = null \/ popped.kids = 0
    /\ dtor_depth <= 1

IsChain(ch) == \A n \in Nodes : Len(ch[n]) <= 1 /\ null \notin {ch[n][q] : q \in 1..Len(ch[n])}

\* a single-child chain of four nodes has been drained completely
C2_Witness ==
    /\ pc = "done"
    /\ IsChain(tree0)
    /\ Cardinality(Desc0) >= 3
    /\ dtor_depth = 1
    /\ \A n \in Desc0 : released[n] = 1

\* the nodes a traversal from the root has to yield
TravNodes == {root} \cup Descendants(tree0, root)
TreeSize == Cardinality(TravNodes)
\* the iterator object k was advanced past the last node
PastLast(k) == k \in started /\ adv[k] = TreeSize
Range(s) == {s[i] : i \in DOMAIN s}
NoDup(s) == \A i, j \in DOMAIN s : i # j => s[i] # s[j]
IsPrefix(s, t) == Len(s) <= Len(t) /\ SubSeq(t, 1, Len(s)) = s

ParentOf(ch, n) == CHOOSE m \in Nodes : n \in PresentKids(ch, m)
SlotOf(ch, n) == CHOOSE q \in 1..Len(ch[ParentOf(ch, n)]) : ch[ParentOf(ch, n)][q] = n
RECURSIVE DepthOf(_, _)
DepthOf(ch, n) == IF n = root THEN 0 ELSE 1 + DepthOf(ch, ParentOf(ch, n))
PosIn(s, x) == CHOOSE i \in DOMAIN s : s[i] = x

\* s lists nodes by depth, within a depth by the place of the parent in s
\* and under one parent by child index
LevelOrdered(ch, s) ==
    /\ NoDup(s)
    /\ Range(s) \subseteq TravNodes
    /\ \A i \in DOMAIN s : s[i] # root => ParentOf(ch, s[i]) \in Range(SubSeq(s, 1, i - 1))
    /\ \A i, j \in DOMAIN s :
         i < j =>
            /\ DepthOf(ch, s[i]) <= DepthOf(ch, s[j])
            /\ (DepthOf(ch, s[i]) = DepthOf(ch, s[j]) /\ s[i] # root) =>
                 IF ParentOf(ch, s[i]) = ParentOf(ch, s[j])
                 THEN SlotOf(ch, s[i]) < SlotOf(ch, s[j])
                 ELSE PosIn(s, ParentOf(ch, s[i])) < PosIn(s, ParentOf(ch, s[j]))

\* C3: the breadth-first iterator yields the nodes in level order: the root,
\* then depth 1, depth 2, ...; within a depth by the visit order of the
\* parents and under one parent left to right; once it equals end() it has
\* yielded every node.
C3_BreadthFirstLevelOrder ==
    _Iteration = "breadth_first_iteration" =>
        \A k \in started :
            /\ LevelOrdered(tree0, out[k])
            /\ Len(out[k]) = IF bf_empty(bf[k]) THEN TreeSize ELSE adv[k] + 1
            /\ bf_empty(bf[k]) => Range(out[k]) = TravNodes

\* a breadth-first traversal ended on a tree in which two children of the
\* root have children of their own
C3_Witness ==
    /\ _Iteration = "breadth_first_iteration"
    /\ 1 \in started /\ bf_empty(bf[1])
    /\ \E a, b \in PresentKids(tree0, root) :
          a # b /\ PresentKids(tree0, a) # {} /\ PresentKids(tree0, b) # {}
    /\ Len(out[1]) = 5

RECURSIVE PreOrder(_, _)
RECURSIVE PreOrderFrom(_, _, _)
\* recursive pre-order: the node, then the subtrees of its present children
PreOrder(ch, n) == <<n>> \o PreOrderFrom(ch, n, 1)
PreOrderFrom(ch, n, q) ==
    IF q > Len(ch[n]) THEN <<>>
    ELSE (IF ch[n][q] = null THEN <<>> ELSE PreOrder(ch, ch[n][q]))
         \o PreOrderFrom(ch, n, q + 1)

\* C4: iterating the depth-first iterator from begin() to end() yields
\* exactly the recursive pre-order sequence of the tree.
C4_DepthFirstPreOrder ==
    _Iteration = "depth_first_iteration" =>
        \A k \in started :
            /\ IsPrefix(out[k], PreOrder(tree0, root))
            /\ (~aborted /\ df_empty(df[k])) => out[k] = PreOrder(tree0, root)

RECURSIVE InOrder(_, _)
RECURSIVE InOrderFrom(_, _, _)
\* n-ary in-order: the subtree of the first child, the node, the subtrees
\* of the remaining children
InOrder(ch, n) ==
    IF ch[n] = <<>> THEN <<n>>
    ELSE (IF ch[n][1] = null THEN <<>> ELSE InOrder(ch, ch[n][1]))
         \o <<n>> \o InOrderFrom(ch, n, 2)
InOrderFrom(ch, n, q) ==
    IF q > Len(ch[n]) THEN <<>>
    ELSE (IF ch[n][q] = null THEN <<>> ELSE InOrder(ch, ch[n][q]))
         \o InOrderFrom(ch, n, q + 1)

\* C5: iterating the in-order iterator from begin() to end() yields, for
\* every node, the subtree of its first child, then the node, then the
\* subtrees of its remaining children in increasing child index.
C5_InOrderSequence ==
    _Iteration = "in_order_iteration" =>
        \A k \in started :
            /\ IsPrefix(out[k], InOrder(tree0, root))
            /\ Len(out[k]) = IF io_empty(io[k]) THEN TreeSize ELSE adv[k] + 1
            /\ io_empty(io[k]) => out[k] = InOrder(tree0, root)

\* an in-order traversal ended on a tree with a node whose first two slots
\* are present and a node with children whose first slot is absent
C5_Witness ==
    /\ _Iteration = "in_order_iteration"
    /\ 1 \in started /\ io_empty(io[1])
    /\ \E n \in TravNodes :
          Len(tree0[n]) >= 2 /\ tree0[n][1] # null /\ tree0[n][2] # null
    /\ \E n \in TravNodes :
          Len(tree0[n]) >= 2 /\ tree0[n][1] = null /\ tree0[n][2] # null

\* the node the iterator object k designates; null when it designates none
Designated(k) ==
    CASE _Iteration = "breadth_first_iteration" ->
            IF bf_empty(bf[k]) THEN null ELSE bf_deref(bf[k])
      [] _Iteration = "depth_first_iteration" -> df[k]._M_current
      [] _Iteration = "in_order_iteration" -> io[k]._M_current
      [] OTHER -> null

\* C6: a traversal never stops on an absent placeholder: an iterator that
\* has not been advanced past the last node designates a present node of
\* the tree.
C6_NeverYieldsAbsent ==
    ~aborted =>
        \A k \in started : ~PastLast(k) => Designated(k) \in TravNodes

\* operator== of the iterator objects j and k
IterEq(j, k) ==
    CASE _Iteration = "breadth_first_iteration" -> bf_eq(bf[j], bf[k])
      [] _Iteration = "depth_first_iteration" -> df_eq(df[j], df[k])
      [] _Iteration = "in_order_iteration" -> io_eq(io[j], io[k])
      [] OTHER -> TRUE

\* C7: a default-constructed iterator equals a default-constructed one and
\* one advanced past the last node, and differs from one that is not
\* exhausted.
C7_DefaultIsEnd ==
    ~aborted =>
        \A j \in Its \ started : \A k \in Its :
            /\ IterEq(j, k) <=> (k \notin started \/ PastLast(k))
            /\ IterEq(k, j) <=> (k \notin started \/ PastLast(k))

\* C8: two iterators are equal iff both are exhausted or both are at the
\* same position of the traversal (the same number of advances from
\* begin()).
C8_EqualIffSamePosition ==
    ~aborted =>
        \A j, k \in started :
            IterEq(j, k) <=> ((PastLast(j) /\ PastLast(k)) \/ adv[j] = adv[k])

\* the present handles that refer to node n: the client's locals, the child
\* slots of live nodes and the two locals of a running destroy
SlotsHolding(n) ==
    UNION {{<<m, q>> : q \in {r \in DOMAIN _M_children[m] : _M_children[m][r] = n}} :
             m \in live}
HandleCount(n) ==
    Cardinality({i \in DOMAIN held : held[i] = n})
    + Cardinality(SlotsHolding(n))
    + (IF current = n THEN 1 ELSE 0)
    + (IF parent = n THEN 1 ELSE 0)

OneOwner == \A n \in live : HandleCount(n) <= 1

\* the places of the state before a step that hold node h
PlacesHolding(h) == {p \in Places(World) : ReadPlace(World, p) = h}

\* a client statement that moved a node from place p to another place left p
\* absent, unless the statement went on to assign p the node it created or
\* p went away with its node
MovedFromAbsent ==
    \A h \in live \cap live' : \A p \in PlacesHolding(h) :
        LET after == [H |-> Heap', hd |-> held']
        IN (\E s \in Places(after) : s # p /\ ReadPlace(after, s) = h)
           => \/ ~PlaceExists(after, p)
              \/ ReadPlace(after, p) = null
              \/ ReadPlace(after, p) \notin live

\* C9: under the unique policy, through create, make_children and
\* set_children, push_back, assignment to a child or a local, pop_back,
\* remove_children and every iteration of destroy, each live node is referred
\* to by at most one present handle, and a statement that moves a handle into
\* another place leaves the place it came from absent.
C9_UniqueOwner ==
    [][/\ OneOwner'
       /\ (dpc = "idle" /\ dpc' = "idle") => MovedFromAbsent]_vars

\* a local was moved into a node: the moved node, itself a parent, is in a
\* child slot of a node the client holds, that slot is its only handle, and
\* the client has an absent local
C9_Witness ==
    /\ dpc = "idle"
    /\ \E i \in DOMAIN held, j \in DOMAIN held :
         /\ held[i] # null /\ held[j] = null
         /\ \E q \in DOMAIN _M_children[held[i]] :
              /\ _M_children[held[i]][q] # null
              /\ HandleCount(_M_children[held[i]][q]) = 1
              /\ _M_children[_M_children[held[i]][q]] # <<>>

\* C10: under the shared policy, whatever handles are copied, moved, dropped
\* and reassigned, a node is alive exactly while some present handle refers
\* to it, its use count is the number of those handles, and it is destroyed
\* once, never more.
C10_DestroyedWithLastHandle ==
    \A n \in Nodes :
        /\ released[n] <= 1
        /\ n \in live <=> HandleCount(n) >= 1
        /\ n \in live => (use_count[n] = HandleCount(n) /\ released[n] = 0)
        /\ released[n] = 1 => n \notin live

\* a node that was copied has two handles, one in a child slot and one in a
\* local, while another node has been destroyed with its last handle
C10_Witness ==
    /\ \E n \in live :
         /\ HandleCount(n) = 2
         /\ SlotsHolding(n) # {}
         /\ \E i \in DOMAIN held : held[i] = n
    /\ \E m \in Nodes : released[m] = 1

\* C11: after any sequence of push_back(h), pop_back() and child(i) = h the
\* children sequence of every node is the reference list obtained by
\* appending at the end, removing the last element and replacing element i:
\* absent handles take a slot like present ones, child_count() is the length
\* of the list and has_child() holds iff the length is not zero.
C11_ChildrenIsReferenceList ==
    \A n \in live :
        /\ _M_children[n] = ref[n]
        /\ child_count(_M_children, n) = Len(ref[n])
        /\ has_child(_M_children, n) <=> Len(ref[n]) # 0

\* a node the client holds has the list <<absent, present>> and another
\* node has been destroyed by a pop_back or an assignment
C11_Witness ==
    /\ \E i \in DOMAIN held :
         /\ held[i] # null
         /\ Len(ref[held[i]]) = 2
         /\ ref[held[i]][1] = null
         /\ ref[held[i]][2] # null
    /\ \E m \in Nodes : released[m] = 1

FirstAt(c, d) ==
    IF \E p \in DOMAIN c : c[p] = d
    THEN CHOOSE p \in DOMAIN c : c[p] = d /\ \A q \in 1..(p - 1) : c[q] # d
    ELSE 0
\* the maximal segments of c that end at a delimiter d or at the end of c
RECURSIVE Segments(_, _)
Segments(c, d) ==
    IF c = <<>> THEN <<>>
    ELSE IF FirstAt(c, d) = 0 THEN <<c>>
    ELSE <<Take(c, FirstAt(c, d))>> \o Segments(SubSeq(c, FirstAt(c, d) + 1, Len(c)), d)
\* a segment as a line: without its delimiter if strip is selected
AsLine(seg, d, strip) ==
    IF strip /\ seg[Len(seg)] = d THEN Take(seg, Len(seg) - 1) ELSE seg
\* the lines of the file of the reader
RefLines ==
    [i \in DOMAIN Segments(content, _M_delimiter) |->
        AsLine(Segments(content, _M_delimiter)[i], _M_delimiter, _M_strip_delimiter)]
RECURSIVE Concat(_)
Concat(ss) == IF ss = <<>> THEN <<>> ELSE Head(ss) \o Concat(Tail(ss))

\* the line iterator object k is end()
AtEnd(k) ==
    IF lr_class = "file_line_reader" THEN fl[k]._M_reader = "nullptr"
    ELSE mm[k]._M_reader = "nullptr"

\* the iterator object k has yielded the lines of the file one by one, all
\* of them once it is end(); without stripping they add up to the content
YieldsRefLines(k) ==
    /\ IsPrefix(lr_out[k], RefLines)
    /\ AtEnd(k) => lr_out[k] = RefLines
    /\ ~AtEnd(k) => lr_out[k] # <<>>
    /\ (AtEnd(k) /\ ~_M_strip_delimiter) => Concat(lr_out[k]) = content

\* C13: basic_mmap_line_reader yields as its i-th line the i-th maximal
\* segment of the content that ends at a delimiter or at the end of the
\* content, without the delimiter iff strip_delimiter is selected and the
\* segment ends in one; with no_strip_delimiter the lines concatenated are
\* the content.
C13_MmapLines ==
    lr_class = "basic_mmap_line_reader" => \A k \in lr_started : YieldsRefLines(k)

\* a stripping mmap reader was read to the end of a file of at least three
\* lines, one of them empty, the last one without a delimiter
C13_Witness ==
    /\ lr_class = "basic_mmap_line_reader"
    /\ 1 \in lr_started /\ AtEnd(1)
    /\ _M_strip_delimiter
    /\ Len(lr_out[1]) >= 3
    /\ \E i \in 1..(Len(lr_out[1]) - 1) : lr_out[1][i] = <<>>
    /\ content[Len(content)] # _M_delimiter

\* C14: file_line_reader, read through one iterator, yields as its i-th
\* line the i-th maximal segment of the stream content that ends at a
\* delimiter or at the end of the stream, for the LF path and the buffered
\* path, for lines shorter and longer than the initial buffer; with
\* no_strip_delimiter the lines concatenated are the content.
C14_FileLines ==
    lr_class = "file_line_reader" =>
        \A k \in Its : lr_started = {k} => YieldsRefLines(k)

\* the lines the file has for a reader of C strings: on the LF path of
\* file_line_reader the content must not hold a NUL byte
TextContent == _M_delimiter # LF \/ \A p \in DOMAIN content : content[p] # NUL

\* the end offset of the line the iterator object k holds
OffsetOf(k) ==
    IF lr_class = "file_line_reader" THEN fl[k]._M_offset ELSE mm[k]._M_offset
\* lines the iterator objects have yielded so far, all together
TotalYielded == Len(lr_out[1]) + Len(lr_out[2])

\* C15 as stated: the sequence of every begin() starts at the first line of
\* the source, however far other iterators of the reader have been advanced.
C15_BeginRestarts ==
    \A k \in lr_started :
        (content # <<>> /\ TextContent) =>
            (lr_out[k] # <<>> /\ lr_out[k][1] = RefLines[1])

\* C15 amended: a new begin() on a basic_mmap_line_reader starts at the
\* first line of the file; a new begin() on a file_line_reader continues the
\* stream, its first line being the line after those that the iterators of
\* the reader have yielded so far (none if they yielded all); and operator++
\* never moves backwards: it adds a line to those yielded and moves the
\* offset of the iterator forward, or makes the iterator end().
C15_RestartOnlyMmap ==
    [][\A k \in Its :
         /\ (k \notin lr_started /\ k \in lr_started') =>
              IF lr_class = "basic_mmap_line_reader"
              THEN lr_out'[k] = Take(RefLines, Min(1, Len(RefLines)))
              ELSE TextContent =>
                     lr_out'[k] = SubSeq(RefLines, TotalYielded + 1,
                                         Min(TotalYielded + 1, Len(RefLines)))
         /\ (k \in lr_started /\ ~AtEnd(k) /\ lr_out'[k] # lr_out[k]) =>
              /\ Len(lr_out'[k]) = Len(lr_out[k]) + 1
              /\ IsPrefix(lr_out[k], lr_out'[k])
              /\ OffsetOf(k)' > OffsetOf(k)
         /\ (k \in lr_started /\ ~AtEnd(k) /\ fl'[k] # fl[k] /\ lr_out'[k] = lr_out[k]) =>
              AtEnd(k)'
         /\ (k \in lr_started /\ ~AtEnd(k) /\ mm'[k] # mm[k] /\ lr_out'[k] = lr_out[k]) =>
              AtEnd(k)'
      ]_vars

\* the first iterator of a file_line_reader yielded the first two lines of
\* a file of three different lines, then the second iterator was begun and
\* holds the third line
C15_Witness ==
    /\ lr_class = "file_line_reader"
    /\ TextContent
    /\ Len(RefLines) = 3
    /\ RefLines[3] # RefLines[1]
    /\ lr_out[1] = Take(RefLines, 2)
    /\ lr_out[2] = <<RefLines[3]>>

\* the nodes of the tree the client built
Nodes0 == {root} \cup Desc0

\* C16: under the exclusive policy tree::destroy(ptr) terminates with ptr
\* absent and every node of the tree ptr referred to released exactly once,
\* none leaked and none released twice, for any number of children per node
\* and any placement of absent slots.
C16_DestroyReleasesOnce ==
    /\ [](\A n \in Nodes : released[n] <= 1)
    /\ [](dpc # "assert_failed")
    /\ []((dpc = "idle" /\ held[1] = null) =>
            /\ live = {}
            /\ \A n \in Nodes0 : released[n] = 1)
    /\ []((dpc = "loop" /\ current # null) => held[1] = null)
    /\ (dpc = "loop" ~> dpc = "idle")

\* destroy returned on a tree of five nodes with an absent slot and a node
\* of three children slots
C16_Witness ==
    /\ dpc = "idle"
    /\ held[1] = null
    /\ Cardinality(Nodes0) = 5
    /\ \E n \in Nodes0 : Len(tree0[n]) = 3
    /\ \E n \in Nodes0 : \E q \in DOMAIN tree0[n] : tree0[n][q] = null
    /\ \A n \in Nodes0 : released[n] = 1

\* C17: after root.remove_children() every node that was a descendant of
\* root has an empty children sequence, also the descendants kept alive by a
\* handle of the client and those attached under a second parent.
C17_DescendantsEmptied ==
    pc = "done" => \A n \in Desc0 : _M_children[n] = <<>>

\* remove_children returned on a tree in which a node with children is
\* attached under two parents, and a node with children is held by the
\* client and alive
C17_Witness ==
    /\ pc = "done"
    /\ \E m \in Desc0 : tree0[m] # <<>> /\ Cardinality(SlotsOf(tree0, m)) = 2
    /\ \E m \in HeldNodes : tree0[m] # <<>> /\ m \in live /\ _M_children[m] = <<>>

\* the sequence of node m lies strictly deeper than the sequence of node n
Deeper(ch, n, m) ==
    m \in Descendants(ch, n) /\ n \notin Descendants(ch, m) \cup {m}

\* C18: remove_children() terminates on every finite tree whose
\* parent-child relation is acyclic; the outer loop ends exactly when the
\* sequence of the root is empty, and every iteration of the inner loops
\* descends to a strictly deeper children sequence or removes one slot.
C18_Terminates ==
    /\ (pc = "outer") ~> (pc = "done")
    /\ [][(pc = "outer") => ((pc' = "done") <=> (_M_children[root] = <<>>))]_vars
    /\ [][(pc' = "done") => (pc = "outer" /\ _M_children'[root] = <<>>)]_vars
    /\ [][(pc = "back") =>
            \/ /\ Deeper(_M_children, children_ptr, children_ptr')
               /\ _M_children' = _M_children
            \/ /\ children_ptr' = children_ptr
               /\ Len(_M_children'[children_ptr]) = Len(_M_children[children_ptr]) - 1]_vars

\* remove_children returned after three descents and more on a tree with a
\* node attached under two parents
C18_Witness ==
    /\ pc = "done"
    /\ descends >= 3
    /\ \E m \in Desc0 : Cardinality(SlotsOf(tree0, m)) = 2

\* the slots of the nodes in S, in the heap ch
RECURSIVE SlotCount(_, _)
SlotCountFrom(ch, S, x) == Len(ch[x]) + SlotCount(ch, S \ {x})
SlotCount(ch, S) ==
    IF S = {} THEN 0 ELSE SlotCountFrom(ch, S, CHOOSE x \in S : TRUE)
\* the depths below root of the nodes in S, in the tree the client built
RECURSIVE DepthSum(_)
DepthSumFrom(S, x) == DepthOf(tree0, x) + DepthSum(S \ {x})
DepthSum(S) ==
    IF S = {} THEN 0 ELSE DepthSumFrom(S, CHOOSE x \in S : TRUE)
\* the descendants of root that have a children sequence to drain
Inner0 == {n \in Desc0 : tree0[n] # <<>>}

\* C19 as stated, with the work of a single post-order pass as the linear
\* bound: one pop_back for each slot and at most one descend through each
\* slot.
C19_LinearWork ==
    pc = "done" => descends + pops <= 2 * SlotCount(tree0, TravNodes)

\* C19 amended: remove_children() makes one pop_back for each slot of the
\* subtree and, as it starts again from the root after every sequence it
\* has drained, one descend for every sequence on the way to each sequence
\* it drains: the descends are the sum of the depths of the descendants
\* that have children.  The work is O(nodes * height); on a single-child
\* chain of n descendants it is n + n(n - 1)/2 = n(n + 1)/2.
C19_WorkIsSlotsPlusDepths ==
    pc = "done" =>
        /\ pops = SlotCount(tree0, TravNodes)
        /\ descends = DepthSum(Inner0)
        /\ descends <= Cardinality(Inner0) * (TreeSize - 1)
        /\ (IsChain(tree0) /\ TreeSize >= 2) =>
              2 * (descends + pops) = (TreeSize - 1) * TreeSize

\* a single-child chain of four descendants has been removed with ten steps
C19_Witness ==
    /\ pc = "done"
    /\ IsChain(tree0)
    /\ TreeSize = 5
    /\ pops = 4
    /\ descends = 6

\* C20: during remove_children() children_ptr designates the children
\* sequence of the root or of a node that is alive and attached in the
\* tree; back() and pop_back() are applied to non-empty sequences only; each
\* slot of the subtree is removed by exactly one pop_back.
C20_WorkingReferenceValid ==
    /\ pc \in {"inner", "back"} =>
          /\ children_ptr \in live
          /\ children_ptr \in {root} \cup Descendants(_M_children, root)
    /\ pc = "back" => _M_children[children_ptr] # <<>>
    /\ pc # "idle" =>
          pops + SlotCount(_M_children, TravNodes) = SlotCount(tree0, TravNodes)
    /\ pc = "done" => pops = SlotCount(tree0, TravNodes)

\* the working reference is two levels below the root, after slots have
\* been popped, in a tree with a node attached under two parents
C20_Witness ==
    /\ pc = "back"
    /\ children_ptr # root
    /\ children_ptr \notin PresentKids(_M_children, root)
    /\ \E m \in Desc0 : Cardinality(SlotsOf(tree0, m)) = 2
    /\ pops >= 2

\* C21: each of the three traversals, started at begin(), yields every
\* present node reachable from the root exactly once and is exhausted
\* (equal to end()) after as many advances as there are such nodes, not
\* before; the three traversals so yield permutations of one node set, and
\* on a single-node tree just the root.
C21_EveryNodeOnce ==
    ~aborted =>
        \A k \in started :
            /\ NoDup(out[k])
            /\ Range(out[k]) \subseteq TravNodes
            /\ Len(out[k]) = Min(adv[k] + 1, TreeSize)
            /\ (Designated(k) = null) <=> (adv[k] = TreeSize)
            /\ (Designated(k) = null) => Range(out[k]) = TravNodes
            /\ TreeSize = 1 => out[k] = <<root>>

\* the present handles of the slots s, in order
RECURSIVE WithoutNull(_)
WithoutNull(s) ==
    IF s = <<>> THEN <<>>
    ELSE (IF Head(s) = null THEN <<>> ELSE <<Head(s)>>) \o WithoutNull(Tail(s))
\* the present children of the first i nodes of the list tl, in order
RECURSIVE ChildrenOfFirst(_, _, _)
ChildrenOfFirst(ch, tl, i) ==
    IF i = 0 THEN <<>>
    ELSE ChildrenOfFirst(ch, tl, i - 1) \o WithoutNull(ch[tl[i]])

\* C22: in the breadth-first iterator the nodes of the current-level list
\* all have one depth, the next-level list holds exactly the present
\* children, in order, of the current-level nodes already retired, it is
\* empty when a list has just become the current level, and the iterator is
\* exhausted iff the current level is fully retired and the next level is
\* empty.
C22_BreadthFirstLevels ==
    _Iteration = "breadth_first_iteration" =>
        \A k \in started :
            /\ \A i, j \in DOMAIN bf[k]._M_this_level :
                  DepthOf(tree0, bf[k]._M_this_level[i])
                    = DepthOf(tree0, bf[k]._M_this_level[j])
            /\ bf[k]._M_next_level
                  = ChildrenOfFirst(tree0, bf[k]._M_this_level, bf[k]._M_current.idx)
            /\ bf[k]._M_current.idx = 0 => bf[k]._M_next_level = <<>>
            /\ bf_empty(bf[k]) <=>
                  /\ bf[k]._M_current.idx = Len(bf[k]._M_this_level)
                  /\ bf[k]._M_next_level = <<>>

\* the iterator has retired the first of two nodes of depth 1 and holds the
\* children of that node in the next-level list; the other iterator has
\* just switched to the level of depth 2
C22_Witness ==
    /\ _Iteration = "breadth_first_iteration"
    /\ started = {1, 2}
    /\ Len(bf[1]._M_this_level) = 2
    /\ bf[1]._M_current.idx = 1
    /\ bf[1]._M_next_level # <<>>
    /\ bf[2]._M_current.idx = 0
    /\ bf[2]._M_this_level # <<>>
    /\ DepthOf(tree0, bf[2]._M_this_level[1]) = 2

\* the ancestors of node n from the root down to its parent
RECURSIVE AncestorPath(_, _)
AncestorPath(ch, n) ==
    IF n = root THEN <<>>
    ELSE AncestorPath(ch, ParentOf(ch, n)) \o <<ParentOf(ch, n)>>
\* the slot of the ancestor a through which node n is reached
SlotOnPath(ch, a, n) ==
    CHOOSE q \in DOMAIN ch[a] :
        ch[a][q] # null /\ n \in {ch[a][q]} \cup Descendants(ch, ch[a][q])
\* the ancestors of n that have slots after the one through which n is reached
OpenAncestors(ch, n) ==
    {a \in Range(AncestorPath(ch, n)) : SlotOnPath(ch, a, n) < Len(ch[a])}

\* C23 as stated: after every advance the stack of the depth-first iterator
\* holds exactly one pair for each ancestor of the current node whose
\* children are not yet fully consumed and no pair whose range is exhausted;
\* its size does not exceed the depth of the current node.
C23_StackOfOpenAncestors ==
    _Iteration = "depth_first_iteration" =>
        \A k \in started :
            df[k]._M_current # null =>
                /\ \A i \in DOMAIN df[k]._M_stack :
                      df[k]._M_stack[i].first # df[k]._M_stack[i].second
                /\ {df[k]._M_stack[i].vec : i \in DOMAIN df[k]._M_stack}
                      = OpenAncestors(tree0, df[k]._M_current)
                /\ Len(df[k]._M_stack)
                      = Cardinality(OpenAncestors(tree0, df[k]._M_current))
                /\ Len(df[k]._M_stack) <= DepthOf(tree0, df[k]._M_current)

\* C23 amended: while the depth-first iterator designates a node, its stack
\* holds exactly one (next, end) pair for every ancestor of that node, from
\* the root down to the parent, next being the slot after the one through
\* which the node is reached and end the end of the ancestor's children; the
\* pair of an ancestor whose children are all consumed (next = end) stays on
\* the stack until a later advance pops it.  The stack size equals the depth
\* of the current node, and the stack is empty once the traversal is
\* exhausted.
C23_StackOfAncestors ==
    _Iteration = "depth_first_iteration" =>
        \A k \in started :
            /\ df[k]._M_current # null =>
                  /\ Len(df[k]._M_stack) = DepthOf(tree0, df[k]._M_current)
                  /\ \A i \in DOMAIN df[k]._M_stack :
                        /\ df[k]._M_stack[i].vec
                              = AncestorPath(tree0, df[k]._M_current)[i]
                        /\ df[k]._M_stack[i].first
                              = SlotOnPath(tree0, df[k]._M_stack[i].vec,
                                           df[k]._M_current) + 1
                        /\ df[k]._M_stack[i].second
                              = Len(tree0[df[k]._M_stack[i].vec]) + 1
            /\ (df[k]._M_current = null /\ null_deref = "nullptr") =>
                  df[k]._M_stack = <<>>

\* the depth-first iterator designates a node of depth 2 that is the last
\* child of its parent, the parent being the last child of the root: both
\* pairs on the stack are exhausted
C23_Witness ==
    /\ _Iteration = "depth_first_iteration"
    /\ 1 \in started
    /\ df[1]._M_current # null
    /\ Len(df[1]._M_stack) = 2
    /\ \A i \in 1..2 : df[1]._M_stack[i].first = df[1]._M_stack[i].second
    /\ TreeSize = 5

\* the node reached from n by following the first slot while it is present
RECURSIVE Leftmost(_, _)
Leftmost(ch, n) ==
    IF ch[n] = <<>> \/ ch[n][1] = null THEN n ELSE Leftmost(ch, ch[n][1])
\* the nodes of the subtree of node n
Subtree(ch, n) == {n} \cup Descendants(ch, n)

\* C24: the in-order traversal yields first the node reached from the root
\* by following the first child slot while it is present; a node with
\* children whose first slot is absent is yielded before every node of the
\* subtrees of its other children and only once, its frame being pushed
\* with the self-pending flag cleared; a node whose first slot is present is
\* yielded exactly once, immediately after the last node of the subtree of
\* that first child.
C24_InOrderSelfPlace ==
    _Iteration = "in_order_iteration" =>
        \A k \in started :
            /\ out[k][1] = Leftmost(tree0, root)
            /\ NoDup(out[k])
            /\ (io[k]._M_current # null /\ tree0[io[k]._M_current] # <<>>) =>
                  /\ io[k]._M_stack # <<>>
                  /\ Top(io[k]._M_stack).vec = io[k]._M_current
                  /\ Top(io[k]._M_stack).curr = null
            /\ io_empty(io[k]) =>
                  /\ Range(out[k]) = TravNodes
                  /\ \A n \in TravNodes :
                        tree0[n] # <<>> =>
                          IF tree0[n][1] = null
                          THEN \A m \in Descendants(tree0, n) :
                                  PosIn(out[k], n) < PosIn(out[k], m)
                          ELSE /\ \A m \in Subtree(tree0, tree0[n][1]) :
                                    PosIn(out[k], m) < PosIn(out[k], n)
                               /\ out[k][PosIn(out[k], n) - 1]
                                    \in Subtree(tree0, tree0[n][1])

\* an in-order traversal ended on a tree that has a node whose first slot
\* is absent and whose second child is present, below a node whose first
\* child has children of its own
C24_Witness ==
    /\ _Iteration = "in_order_iteration"
    /\ 1 \in started /\ io_empty(io[1])
    /\ \E n \in TravNodes :
          Len(tree0[n]) >= 2 /\ tree0[n][1] = null /\ tree0[n][2] # null
    /\ \E n \in TravNodes :
          /\ tree0[n] # <<>> /\ tree0[n][1] # null
          /\ PresentKids(tree0, tree0[n][1]) # {}
    /\ out[1][1] # root

\* C25: in tree::destroy the assertion never fails: whenever an iteration is
\* about to reach it (current has children and parent is present), parent's
\* children sequence is non-empty and its slot 0 is absent; and the parent
\* handle is absent at the point "Now parent is null" of every iteration that
\* reaches it.  Input trees have up to MaxSlots slots and absent slots anywhere.
C25_AssertionHolds ==
    /\ dpc # "assert_failed"
    /\ dobs.mark = null
    /\ (dpc = "loop" /\ current # null /\ parent # null
           /\ _M_children[current] # <<>>)
         => /\ Len(_M_children[parent]) > 0
            /\ _M_children[parent][1] = null

\* an iteration is about to reach the assertion with a parent of three slots,
\* after at least one node was released
C25_Witness ==
    /\ dpc = "loop"
    /\ current # null
    /\ parent # null
    /\ _M_children[current] # <<>>
    /\ Len(_M_children[parent]) = 3
    /\ \E n \in Nodes : released[n] > 0

\* C26: tree::destroy releases a node only when none of its child slots is
\* present, so ~tree() never runs nested inside another ~tree() during one
\* iteration of destroy, for any number of children per node and any
\* placement of absent slots.
C26_ReleasedNodesAreEmptied == dobs.nest <= 1

\* every node of the input tree has at most two child slots
Binary0 == \A n \in Nodes : Len(tree0[n]) <= 2

\* C27: on a tree of binary shape (at most two slots per node, absent slots
\* allowed) every node tree::destroy releases has no present child at the
\* moment of its release: no ~tree() runs nested inside another one.
C27_BinaryReleasedEmptied == Binary0 => dobs.nest <= 1

\* a node of a binary tree with an absent slot is released while another
\* node still holds its former parent as a child, put there by the rotation
C27_Witness ==
    /\ Binary0
    /\ \E n \in Nodes : \E i \in 1..Len(tree0[n]) : tree0[n][i] = null
    /\ dobs.nest = 1
    /\ \E n \in Nodes : \E i \in 1..Len(_M_children[n]) :
          /\ _M_children[n][i] # null
          /\ n \in Range(tree0[_M_children[n][i]])

\* the next iteration of destroy takes the rotation
RotationNext ==
    /\ dpc = "loop"
    /\ current # null
    /\ _M_children[current] # <<>>
    /\ parent # null
    /\ Len(_M_children[parent]) > 1
    /\ _M_children[parent][2] # null

\* C28: every indexed access _M_children[0] and _M_children[1] of
\* tree::destroy is within the bounds of the sequence it indexes; avoid_sole
\* and remove_null_but_avoid_sole never leave a sequence of size exactly 1;
\* after the rotation current has at least two slots.
C28_IndexedAccessInBounds ==
    /\ [](dpc # "out_of_bounds")
    /\ [](\A n \in live :
            /\ Len(avoid_sole(_M_children[n])) # 1
            /\ Len(remove_null_but_avoid_sole(_M_children[n])) # 1)
    /\ [][(RotationNext /\ current \in live')
             => Len(_M_children'[current]) >= 2]_vars

\* a node that had a sole slot was padded to two slots by the rotation and
\* holds its former parent in slot 1
C28_Witness ==
    \E n \in live :
        /\ Len(tree0[n]) = 1
        /\ Len(_M_children[n]) = 2
        /\ _M_children[n][2] # null
        /\ n \in Range(tree0[_M_children[n][2]])

\* the number of bytes d in c
RECURSIVE CountOf(_, _)
CountOf(c, d) ==
    IF c = <<>> THEN 0
    ELSE (IF Head(c) = d THEN 1 ELSE 0) + CountOf(Tail(c), d)
\* the delimiters of the source, plus one for a last byte that is none
LineCount ==
    CountOf(content, _M_delimiter)
    + (IF content # <<>> /\ content[Len(content)] # _M_delimiter THEN 1 ELSE 0)
\* the iterator object k == end(), by the operator== of its class
EqualsEnd(k) ==
    IF lr_class = "file_line_reader" THEN fl_eq(fl[k], fl_default)
    ELSE mm_eq(mm[k], mm_default)
\* the iterator object k reads the source from its start
ReadsFromStart(k) ==
    k \in lr_started /\ (lr_class = "file_line_reader" => lr_started = {k})

\* C29: an iterator of either line reader that reads the source from its
\* start yields as many lines as the source has delimiters, plus one if the
\* source is non-empty and its last byte is not a delimiter: it equals end()
\* exactly when it was advanced past the last line, begin() equals end() iff
\* the source is empty, and with strip_delimiter the i-th line is empty iff
\* the i-th segment is a delimiter alone.
C29_LineCount ==
    \A k \in Its : ReadsFromStart(k) =>
        /\ EqualsEnd(k) <=> AtEnd(k)
        /\ EqualsEnd(k) => Len(lr_out[k]) = LineCount
        /\ ~EqualsEnd(k) => (1 <= Len(lr_out[k]) /\ Len(lr_out[k]) <= LineCount)
        /\ (EqualsEnd(k) /\ lr_out[k] = <<>>) <=> content = <<>>
        /\ _M_strip_delimiter =>
              \A i \in 1..Min(Len(lr_out[k]), Len(Segments(content, _M_delimiter))) :
                  lr_out[k][i] = <<>>
                      <=> Segments(content, _M_delimiter)[i] = <<_M_delimiter>>

\* the lines the other line reader class yields for the same content,
\* delimiter and strip setting
OtherReaderLines ==
    IF lr_class = "file_line_reader" THEN mm_lines ELSE fl_lines

\* C30: for the same content, delimiter and strip setting file_line_reader
\* and basic_mmap_line_reader yield the same lines: what an iterator of one
\* class has yielded reading from the start is a prefix of the lines of the
\* other class, and all of them once the iterator is end(); on the LF path
\* and on the buffered path of file_line_reader.
C30_ReadersAgree ==
    \A k \in Its : ReadsFromStart(k) =>
        /\ IsPrefix(lr_out[k], OtherReaderLines)
        /\ AtEnd(k) => lr_out[k] = OtherReaderLines

\* C31: the buffer a file_line_reader allocates for a delimiter other than
\* LF is released exactly once over all objects' lifetimes: delete[] is
\* never called twice on a buffer, and once every constructed object is
\* destroyed every buffer was deleted; also after move construction and
\* move assignment.
C31_BufferReleasedOnce ==
    /\ \A b \in Buffers : deletes[b] <= 1
    /\ (~crashed /\ \A o \in Readers : flr[o].life # "alive")
         => \A b \in 1..news : deletes[b] = 1

\* C32: file_line_reader::read and get_line access the output buffer only
\* at indexes in [0, capacity): the bytes fgets stores and its NUL, the test
\* of the last character read, the bytes of the buffered path and the
\* terminating NUL; the buffer is doubled before it would overflow, so the
\* line an iterator holds and its NUL fit the capacity; for every content,
\* NUL bytes included, and both delimiter paths.
C32_OutputIndexInBounds ==
    lr_class = "file_line_reader" =>
        /\ output_in_bounds
        /\ \A k \in lr_started :
              fl[k]._M_reader # "nullptr" => fl[k]._M_size < fl[k]._M_capacity

=============================================================================
